---- MODULE Spec2Model ----
(***************************************************************************)
(* A model of apple_xml_tools: the typed plist model built on top of an   *)
(* XML element tree (AppleXML), the tag-constrained wrappers, the          *)
(* recursive parser, the schema validator and the text flattener.          *)
(*                                                                         *)
(* A text (a Python str) is a sequence of one-character strings; an        *)
(* optional text (str | None) is a record [some, val].  An XML element is  *)
(* a record [tag, text, children].                                         *)
(***************************************************************************)
EXTENDS Integers, Sequences, FiniteSets, TLC

VARIABLES
    apple_xml,      \* the AppleXML element the operations are applied to
    pc,             \* which operation has acted last: "init", "constructed", "parsed",
                    \* "flattened", "flattened again", "parsed again", "validated", "wrapped",
                    \* "read", "compared", "fromstr", "normalized"
    heap,           \* where the interpreter allocated the objects of the last parse
    xmldict,        \* the outcome of AppleXMLDict(apple_xml)
    parsed,         \* the outcome of apple_xml.parse_into_primitive_types()
    delimiter,      \* the list_and_dict_delimiter given to get_text
    text,           \* the outcome of ParsedPrimitiveTypes(parsed).get_text(delimiter)
    types_mapping,  \* the descriptor given to validate
    validated,      \* the outcome of ParsedPrimitiveTypes(parsed).validate(types_mapping)
    text_again,     \* the outcome of a second get_text with the same delimiter
    arg_type,       \* the class of the object given to a wrapper constructor
    cls,            \* the wrapper class constructed
    wrapper,        \* the outcome of cls(apple_xml)
    other_xml,      \* the element a second wrapper is made of
    other_wrapper,  \* the outcome of making the second wrapper
    compared,       \* the outcome of wrapper == other_wrapper and of the equality of their hashes
    plain_text,     \* the text given to Diacritics.replace_combining_chars_to_precomposed
    precomposed,    \* the text it returns
    df,             \* the dataframe given to FieldsFilter.apply_on_dataframe
    fields_filter,  \* the FieldsFilter: its INCLUDE and its EXCLUDE
    filtered,       \* the outcome of fields_filter.apply_on_dataframe(df)
    keyed_part,         \* the AppleXMLKeyedPart given to from_xml
    master_image_list,  \* the outcome of IphotoMasterImageList.from_xml(keyed_part)
    list_of_albums,     \* the outcome of IphotoListOfAlbums.from_xml
    target_fields,      \* the TargetFieldsConfig
    txt_config,         \* the AlbumCompositionFileConfig
    dir_is_writable,    \* whether the files of the output directory can be opened for writing
    txts,               \* the outcome of create_album_composition_txts: the files of the directory
    config_file,        \* what the command line gives: no path, a file that cannot be read, a config
    CONFIG,             \* the Config of the run
    log,                \* the messages logged, in order
    exit_status,        \* the exit status of the process, once it has ended
    csvs                \* the CSV files written

\* the variables of the wrappers
wrapper_vars == <<arg_type, cls, wrapper, other_xml, other_wrapper, compared>>

\* the variables of the normalizer
diacritics_vars == <<plain_text, precomposed>>

\* the variables of the iPhoto tools
filter_vars == <<df, fields_filter, filtered>>

from_xml_vars == <<keyed_part, master_image_list>>

album_vars == <<list_of_albums, target_fields, txt_config, dir_is_writable, txts>>

run_vars == <<config_file, CONFIG, log, exit_status, csvs>>

iphoto_vars == <<filter_vars, from_xml_vars, album_vars, run_vars>>

vars == <<apple_xml, pc, heap, xmldict, parsed, delimiter, text, types_mapping, validated,
          text_again, wrapper_vars, diacritics_vars, iphoto_vars>>

-----------------------------------------------------------------------------
(* Bounds of the model. *)

\* the longest child list of the flat containers drawn as input
MaxChildren == 4
\* the longest child list of the containers whose children are containers
MaxNested == 2

-----------------------------------------------------------------------------
(* Texts, optional texts and errors. *)

None == [some |-> FALSE, val |-> <<>>]

Some(s) == [some |-> TRUE, val |-> s]

\* a conversion showing None as the empty string
Format_or_empty(t) == IF t.some THEN t.val ELSE <<>>

\* f'{x}' of a str | None
Format(t) == IF t.some THEN t.val ELSE <<"N", "o", "n", "e">>

NoErr == [type |-> "none", msg |-> <<>>]

Raise(type, msg) == [type |-> type, msg |-> msg]

\* sub occurs in s as a contiguous run
Contains(s, sub) ==
    \E i \in 0..(Len(s) - Len(sub)) : \A j \in 1..Len(sub) : s[i + j] = sub[j]

\* all sequences over S of length at most n
RECURSIVE SeqsOfLen(_, _)
SeqsOfLen(S, n) ==
    IF n = 0 THEN {<<>>}
    ELSE {Append(s, x) : s \in SeqsOfLen(S, n - 1), x \in S}

SeqsUpTo(S, n) == UNION {SeqsOfLen(S, k) : k \in 0..n}

-----------------------------------------------------------------------------
(* The XML access layer. *)

Element(tag, txt, children) == [tag |-> tag, text |-> txt, children |-> children]

get_tag(xml) == xml.tag

AppleXML_get_text(xml) == xml.text

-----------------------------------------------------------------------------
(* AppleXMLKey: equality and hash are those of the element's text. *)

AppleXMLKey_eq(key, other) == key = other

\* key in working_dict
key_in_dict(key, d) == \E i \in 1..Len(d) : AppleXMLKey_eq(d[i].key, key)

\* d[key], for a key in d
dict_getitem(d, key) == d[CHOOSE i \in 1..Len(d) : AppleXMLKey_eq(d[i].key, key)].value

-----------------------------------------------------------------------------
(* AppleXMLDict.__init__ *)

wrong_tag_error(required, tag) ==
    Raise("ValueError",
          <<"The argument is not Apple original xml tag \"", required, "\", but \"", tag, "\".">>)

duplicated_key_error(key) ==
    Raise("ValueError",
          <<"Apple original xml tag \"dict\" is broken.: A key \"">>
              \o Format(key) \o <<"\" is duplicated.">>)

no_key_xml == [set |-> FALSE, key |-> None]

\* if key_xml in working_dict
key_is_duplicated_never(key, working_dict) == FALSE

key_is_duplicated(key, working_dict) == key_in_dict(key, working_dict)

\* elif key_xml is not None: the child is recorded
child_is_value_always(key_xml) == TRUE

child_is_value(key_xml) == key_xml.set

\* key_xml = None, after the value is recorded
key_after_value_kept(key_xml) == key_xml

key_after_value(key_xml) == no_key_xml

RECURSIVE dict_scan(_, _, _, _)
dict_scan(children, i, working_dict, key_xml) ==
    IF i > Len(children)
    THEN [ok |-> TRUE, value |-> working_dict, err |-> NoErr]
    ELSE LET child_xml == children[i] IN
         IF get_tag(child_xml) = "key"
         THEN IF key_is_duplicated(AppleXML_get_text(child_xml), working_dict)
              THEN [ok |-> FALSE, value |-> <<>>,
                    err |-> duplicated_key_error(AppleXML_get_text(child_xml))]
              ELSE dict_scan(children, i + 1, working_dict,
                             [set |-> TRUE, key |-> AppleXML_get_text(child_xml)])
         ELSE IF child_is_value(key_xml)
              THEN dict_scan(children, i + 1,
                             IF key_in_dict(key_xml.key, working_dict)
                             THEN [j \in 1..Len(working_dict) |->
                                     IF AppleXMLKey_eq(working_dict[j].key, key_xml.key)
                                     THEN [key |-> working_dict[j].key, value |-> child_xml]
                                     ELSE working_dict[j]]
                             ELSE Append(working_dict, [key |-> key_xml.key, value |-> child_xml]),
                             key_after_value(key_xml))
              ELSE dict_scan(children, i + 1, working_dict, key_xml)

AppleXMLDict(xml) ==
    IF get_tag(xml) # "dict"
    THEN [ok |-> FALSE, value |-> <<>>, err |-> wrong_tag_error("dict", get_tag(xml))]
    ELSE dict_scan(xml.children, 1, <<>>, no_key_xml)

-----------------------------------------------------------------------------
(* AppleXMLArray.__init__ and the leaf wrappers. *)

AppleXMLArray(xml) ==
    IF get_tag(xml) # "array"
    THEN [ok |-> FALSE, value |-> <<>>, err |-> wrong_tag_error("array", get_tag(xml))]
    ELSE [ok |-> TRUE, value |-> xml.children, err |-> NoErr]

\* a parsed value: kind is the class of the object, text what the wrapper stores,
\* items the entries [key, value] of a dict or the elements of a list
Value(kind, txt, items) == [kind |-> kind, text |-> txt, items |-> items]

NoValue == Value("none", None, <<>>)

\* AppleXMLInteger, AppleXMLReal, AppleXMLString: self.__text = apple_xml.get_text()
AppleXMLLeaf(xml) == Value(get_tag(xml), AppleXML_get_text(xml), <<>>)

Chars(tag) ==
    IF tag = "true" THEN <<"t", "r", "u", "e">>
    ELSE IF tag = "false" THEN <<"f", "a", "l", "s", "e">>
    ELSE <<tag>>

\* AppleXMLBool storing the text of the element; below it, self.__text = tag
AppleXMLBool_keeps_text(xml) == Value("bool", AppleXML_get_text(xml), <<>>)

AppleXMLBool(xml) == Value("bool", Some(Chars(get_tag(xml))), <<>>)

AppleXMLBool_get_tags == {"true", "false"}

-----------------------------------------------------------------------------
(* AppleXML.parse_into_primitive_types *)

unsupported_tag_error(tag) ==
    Raise("ValueError", <<"Apple XML tag \"", tag, "\" is not supported.">>)

Parsed(v) == [ok |-> TRUE, value |-> v, err |-> NoErr]

Failed(e) == [ok |-> FALSE, value |-> NoValue, err |-> e]

\* the elements an array comprehension walks
array_elements_but_last(xmlarray) ==
    IF Len(xmlarray) = 0 THEN xmlarray ELSE SubSeq(xmlarray, 1, Len(xmlarray) - 1)

array_elements(xmlarray) == xmlarray

\* the tags parsed as a leaf wrapper
leaf_tags_and_key == {"integer", "real", "string", "key"}

leaf_tags == {"integer", "real", "string"}

RECURSIVE parse_rec(_), parse_all(_, _)
\* the comprehension over the values, in order: the first failure is the outcome
parse_all(xmls, i) ==
    IF i > Len(xmls) THEN [ok |-> TRUE, value |-> <<>>, err |-> NoErr]
    ELSE LET head == parse_rec(xmls[i]) IN
         IF ~head.ok THEN [ok |-> FALSE, value |-> <<>>, err |-> head.err]
         ELSE LET rest == parse_all(xmls, i + 1) IN
              IF ~rest.ok THEN rest
              ELSE [ok |-> TRUE, value |-> <<head.value>> \o rest.value, err |-> NoErr]

parse_rec(xml) ==
    LET tag == get_tag(xml) IN
    IF tag = "dict"
    THEN LET d == AppleXMLDict(xml) IN
         IF ~d.ok THEN Failed(d.err)
         ELSE LET vs == parse_all([i \in 1..Len(d.value) |-> d.value[i].value], 1) IN
              IF ~vs.ok THEN Failed(vs.err)
              ELSE Parsed(Value("dict", None,
                     [i \in 1..Len(d.value) |-> [key |-> d.value[i].key, value |-> vs.value[i]]]))
    ELSE IF tag = "array"
    THEN LET a == AppleXMLArray(xml) IN
         LET vs == parse_all(array_elements(a.value), 1) IN
         IF ~vs.ok THEN Failed(vs.err) ELSE Parsed(Value("list", None, vs.value))
    ELSE IF tag \in leaf_tags THEN Parsed(AppleXMLLeaf(xml))
    ELSE IF tag \in AppleXMLBool_get_tags THEN Parsed(AppleXMLBool(xml))
    ELSE Failed(unsupported_tag_error(tag))

parse_into_primitive_types(xml) == parse_rec(xml)

-----------------------------------------------------------------------------
(* Diacritics.replace_combining_chars_to_precomposed, over the characters  *)
(* x, e, U+0301 (combining acute accent), U+0302 (combining circumflex),   *)
(* U+0323 (combining dot below), U+00E9 (e with acute), U+00EA (e with     *)
(* circumflex), U+1EB9 (e with dot below), U+1EBF (e with circumflex and   *)
(* acute) and U+1EC7 (e with circumflex and dot below).                    *)

\* a table of combining classes in which the acute accent is missing
combining_but_acute(char) ==
    IF char = "U+0302" THEN 230 ELSE IF char = "U+0323" THEN 220 ELSE 0

\* unicodedata.combining: the canonical combining class
combining(char) ==
    IF char \in {"U+0301", "U+0302"} THEN 230 ELSE IF char = "U+0323" THEN 220 ELSE 0

\* unicodedata.decomposition, canonical
decomposition(char) ==
    IF char = "U+00E9" THEN <<"e", "U+0301">>
    ELSE IF char = "U+00EA" THEN <<"e", "U+0302">>
    ELSE IF char = "U+1EB9" THEN <<"e", "U+0323">>
    ELSE IF char = "U+1EBF" THEN <<"U+00EA", "U+0301">>
    ELSE IF char = "U+1EC7" THEN <<"U+1EB9", "U+0302">>
    ELSE <<char>>

\* the primary composite of a pair, <<>> when there is none
composite(first, second) ==
    IF first = "e" /\ second = "U+0301" THEN <<"U+00E9">>
    ELSE IF first = "e" /\ second = "U+0302" THEN <<"U+00EA">>
    ELSE IF first = "e" /\ second = "U+0323" THEN <<"U+1EB9">>
    ELSE IF first = "U+00EA" /\ second = "U+0301" THEN <<"U+1EBF">>
    ELSE IF first = "U+1EB9" /\ second = "U+0302" THEN <<"U+1EC7">>
    ELSE <<>>

RECURSIVE decompose(_)
\* the full canonical decomposition, character by character
decompose(s) ==
    IF s = <<>> THEN <<>>
    ELSE IF decomposition(Head(s)) = <<Head(s)>> THEN <<Head(s)>> \o decompose(Tail(s))
    ELSE decompose(decomposition(Head(s))) \o decompose(Tail(s))

RECURSIVE canonical_order(_)
canonical_order(s) ==
    LET bad == {i \in 1..(Len(s) - 1) :
                  combining(s[i + 1]) > 0 /\ combining(s[i]) > combining(s[i + 1])} IN
    IF bad = {} THEN s
    ELSE LET i == CHOOSE k \in bad : \A m \in bad : k <= m IN
         canonical_order([j \in 1..Len(s) |->
                            IF j = i THEN s[i + 1] ELSE IF j = i + 1 THEN s[i] ELSE s[j]])

\* canonical composition: out is the text so far, starter the place of its last
\* starter (0: none), last the combining class of the last character after it (-1: none)
RECURSIVE compose(_, _, _, _, _)
compose(s, i, out, starter, last) ==
    IF i > Len(s) THEN out
    ELSE LET c == s[i] IN
         IF starter > 0 /\ composite(out[starter], c) # <<>> /\ last < combining(c)
         THEN compose(s, i + 1, [out EXCEPT ![starter] = composite(out[starter], c)[1]],
                      starter, last)
         ELSE IF combining(c) = 0
              THEN compose(s, i + 1, Append(out, c), Len(out) + 1, -1)
              ELSE compose(s, i + 1, Append(out, c), starter, combining(c))

\* unicodedata.normalize('NFC', s)
normalize_NFC(s) == compose(canonical_order(decompose(s)), 1, <<>>, 0, -1)

RECURSIVE join_chars(_)
\* ''.join(new_text_as_chars)
join_chars(strs) == IF strs = <<>> THEN <<>> ELSE Head(strs) \o join_chars(Tail(strs))

RECURSIVE replace_scan_one_step(_, _, _)
\* the loop composing a mark only when it comes right after a character that is no
\* mark: one composition for each base
replace_scan_one_step(txt, i, new_text_as_chars) ==
    IF i > Len(txt) THEN join_chars(new_text_as_chars)
    ELSE LET char == txt[i] IN
         IF combining(char) # 0 /\ new_text_as_chars # <<>> /\ (i = 1 \/ combining(txt[i - 1]) = 0)
         THEN LET n == Len(new_text_as_chars)
                  chars_to_compose == new_text_as_chars[n] \o <<char>>
              IN  replace_scan_one_step(txt, i + 1,
                     Append(SubSeq(new_text_as_chars, 1, n - 1), normalize_NFC(chars_to_compose)))
         ELSE replace_scan_one_step(txt, i + 1, Append(new_text_as_chars, <<char>>))

RECURSIVE replace_scan(_, _, _)
\* for char in text, new_text_as_chars being the list built so far
replace_scan(txt, i, new_text_as_chars) ==
    IF i > Len(txt) THEN join_chars(new_text_as_chars)
    ELSE LET char == txt[i] IN
         IF combining(char) # 0 /\ new_text_as_chars # <<>>
         THEN LET n == Len(new_text_as_chars)
                  chars_to_compose == new_text_as_chars[n] \o <<char>>
              IN  replace_scan(txt, i + 1,
                     Append(SubSeq(new_text_as_chars, 1, n - 1), normalize_NFC(chars_to_compose)))
         ELSE replace_scan(txt, i + 1, Append(new_text_as_chars, <<char>>))

replace_combining_chars_to_precomposed(txt) == replace_scan(txt, 1, <<>>)

-----------------------------------------------------------------------------
(* get_text of the wrappers. *)

AppleXMLString_get_text(v) ==
    IF ~v.text.some THEN None
    ELSE Some(replace_combining_chars_to_precomposed(v.text.val))

\* AppleXMLInteger, AppleXMLReal, AppleXMLBool, AppleXMLString
wrapper_get_text(v) ==
    IF v.kind = "string" THEN AppleXMLString_get_text(v) ELSE v.text

-----------------------------------------------------------------------------
(* ParsedPrimitiveTypes.get_text *)

\* the default of list_and_dict_delimiter
DefaultDelimiter == <<"|">>

\* f'{key}' of an AppleXMLKey: the class defines neither __str__ nor __repr__ nor
\* __format__, so this is object.__repr__, which shows where the object lives
key_str(key, address) ==
    <<"<apple_xml_tools.apple_xml_tools.AppleXMLKey object at ", ToString(address), ">">>

RECURSIVE str_join(_, _)
\* delimiter.join(segments)
str_join(d, segments) ==
    IF segments = <<>> THEN <<>>
    ELSE IF Len(segments) = 1 THEN segments[1]
    ELSE segments[1] \o d \o str_join(d, Tail(segments))

RECURSIVE get_text_rec(_, _, _)
\* __get_text(parsed_primitive_types, list_and_dict_delimiter); where is the place of
\* the value in the parsed tree, which tells its objects apart.  The calls for the
\* children leave the delimiter out, so they take its default.
get_text_rec(p, d, where) ==
    IF p.kind = "nan" THEN Some(<<>>)
    ELSE IF p.kind = "dict"
    THEN Some(str_join(d, [i \in 1..Len(p.items) |->
                 key_str(p.items[i].key, where \o <<i>>) \o <<":", " ">>
                     \o Format(get_text_rec(p.items[i].value, DefaultDelimiter, where \o <<i>>))]))
    ELSE IF p.kind = "list"
    THEN Some(str_join(d, [i \in 1..Len(p.items) |->
                 Format(get_text_rec(p.items[i], DefaultDelimiter, where \o <<i>>))]))
    ELSE wrapper_get_text(p)

ParsedPrimitiveTypes_get_text(p, d, at) == get_text_rec(p, d, <<at>>)

-----------------------------------------------------------------------------
(* AppleXMLKey.fromstr: the text is put between <key> and </key> as it is  *)
(* and the result is read as XML.  The texts of the model hold no ">" and  *)
(* no ";", so that a "<" or a "&" in them is never the start of well-formed*)
(* markup or of an entity.                                                 *)

xml_parse_error ==
    Raise("ParseError", <<"not well-formed (invalid token)">>)

\* AppleXML.fromstring(f'<key>{text}</key>')
fromstring_key(txt) ==
    IF \E i \in 1..Len(txt) : txt[i] \in {"&", "<"}
    THEN [ok |-> FALSE, value |-> Element("key", None, <<>>), err |-> xml_parse_error]
    ELSE [ok |-> TRUE, value |-> Element("key", IF txt = <<>> THEN None ELSE Some(txt), <<>>),
          err |-> NoErr]

\* the AppleXMLKey made of a str: what stands for it is the text of its element
AppleXMLKey_fromstr(txt) ==
    LET xml == fromstring_key(txt) IN
    [ok |-> xml.ok, value |-> AppleXML_get_text(xml.value), err |-> xml.err]

-----------------------------------------------------------------------------
(* ParsedPrimitiveTypes.validate.  A descriptor is [kind, text, items]:   *)
(* kind "dict" with items the entries [key, value] in order, kind "list"   *)
(* with items the elements, kind "str" with its text, or kind "other" (a   *)
(* number, a boolean, None).  The outcome is NoErr or the error raised.    *)

\* type(parsed_primitive_types), as the messages show it
type_of(p) ==
    IF p.kind = "dict" THEN "<class 'dict'>"
    ELSE IF p.kind = "list" THEN "<class 'list'>"
    ELSE IF p.kind = "integer" THEN "<class 'apple_xml_tools.apple_xml_tools.AppleXMLInteger'>"
    ELSE IF p.kind = "real" THEN "<class 'apple_xml_tools.apple_xml_tools.AppleXMLReal'>"
    ELSE IF p.kind = "string" THEN "<class 'apple_xml_tools.apple_xml_tools.AppleXMLString'>"
    ELSE IF p.kind = "bool" THEN "<class 'apple_xml_tools.apple_xml_tools.AppleXMLBool'>"
    ELSE "<class 'float'>"

not_a_error(p, article, kind) ==
    Raise("TypeError", <<"It is \"", type_of(p), "\" type not ", article, " \"", kind, "\".">>)

not_list_nor_dict_error(p) ==
    Raise("TypeError", <<"It is \"", type_of(p), "\" type not a \"list\", nor a \"dict\".">>)

list_length_error(n) ==
    Raise("ValueError",
          <<"A list in the mapping arg must have only 1 object, but ", ToString(n), ".">>)

unsupported_value_error(txt) ==
    Raise("ValueError", <<"Value \"">> \o txt \o <<"\" in the mapping is not supported.">>)

\* the else branch raising what the str branch raises
unsupported_type_as_value_error ==
    Raise("ValueError", <<"A part of the types in the mapping is not supported: ", "<class>", ".">>)

unsupported_type_error ==
    Raise("TypeError", <<"A part of the types in the mapping is not supported: ", "<class>", ".">>)

\* isinstance(parsed_primitive_types, <the class of kind>)
isinstance_any(p, kind) == TRUE

isinstance(p, kind) == p.kind = kind

\* if xmlkey not in parsed_primitive_types: continue
key_is_skipped(xmlkey, p) == ~key_in_dict(xmlkey, p.items)

\* if len(types_mapping_part) != 1
list_length_is_wrong(tm) == Len(tm.items) # 1

\* the values a single-element list descriptor is applied to
values_of_first_only(p) ==
    LET all == IF p.kind = "dict" THEN [i \in 1..Len(p.items) |-> p.items[i].value] ELSE p.items
    IN  IF all = <<>> THEN all ELSE <<all[1]>>

values_of(p) ==
    IF p.kind = "dict" THEN [i \in 1..Len(p.items) |-> p.items[i].value] ELSE p.items

Integer_tag == <<"i", "n", "t", "e", "g", "e", "r">>
Real_tag == <<"r", "e", "a", "l">>
String_tag == <<"s", "t", "r", "i", "n", "g">>
Bool_tags == {<<"t", "r", "u", "e">>, <<"f", "a", "l", "s", "e">>}

\* a bool descriptor accepting only the values of its own tag
isinstance_of_tag(p, tag) == p.kind = "bool" /\ p.text = Some(tag)

\* elif types_mapping_part in AppleXMLBool.get_tags(): isinstance(..., AppleXMLBool)
isinstance_AppleXMLBool(p, tag) == isinstance(p, "bool")

RECURSIVE validate_rec(_, _), validate_keys(_, _, _), validate_each(_, _, _)
RECURSIVE validate_each_last_error(_, _, _)
RECURSIVE validate_keys_missing_key_fails(_, _, _)
\* the loop over the keys without the continue: a key the dict lacks fails the lookup
validate_keys_missing_key_fails(p, entries, i) ==
    IF i > Len(entries) THEN NoErr
    ELSE LET xmlkey == AppleXMLKey_fromstr(entries[i].key) IN
         IF ~xmlkey.ok THEN xmlkey.err
         ELSE IF key_is_skipped(xmlkey.value, p)
         THEN Raise("KeyError", <<"<apple_xml_tools.apple_xml_tools.AppleXMLKey object>">>)
         ELSE LET r == validate_rec(dict_getitem(p.items, xmlkey.value), entries[i].value) IN
              IF r # NoErr THEN r ELSE validate_keys_missing_key_fails(p, entries, i + 1)

\* for key, types_mapping_part_part in types_mapping_part.items()
validate_keys(p, entries, i) ==
    IF i > Len(entries) THEN NoErr
    ELSE LET xmlkey == AppleXMLKey_fromstr(entries[i].key) IN
         IF ~xmlkey.ok THEN xmlkey.err
         ELSE IF key_is_skipped(xmlkey.value, p) THEN validate_keys(p, entries, i + 1)
         ELSE LET r == validate_rec(dict_getitem(p.items, xmlkey.value), entries[i].value) IN
              IF r # NoErr THEN r ELSE validate_keys(p, entries, i + 1)

\* the loop over the values going on after a failure: the last error is the outcome
validate_each_last_error(values, tm, i) ==
    IF i > Len(values) THEN NoErr
    ELSE LET rest == validate_each_last_error(values, tm, i + 1) IN
         IF rest # NoErr THEN rest ELSE validate_rec(values[i], tm)

\* for parsed_primitive_types_part in parsed_primitive_types_values
validate_each(values, tm, i) ==
    IF i > Len(values) THEN NoErr
    ELSE LET r == validate_rec(values[i], tm) IN
         IF r # NoErr THEN r ELSE validate_each(values, tm, i + 1)

validate_rec(p, tm) ==
    IF tm.kind = "dict"
    THEN IF ~isinstance(p, "dict") THEN not_a_error(p, "a", "dict")
         ELSE validate_keys(p, tm.items, 1)
    ELSE IF tm.kind = "list"
    THEN IF list_length_is_wrong(tm) THEN list_length_error(Len(tm.items))
         ELSE IF p.kind \in {"dict", "list"} THEN validate_each(values_of(p), tm.items[1], 1)
         ELSE not_list_nor_dict_error(p)
    ELSE IF tm.kind = "str" /\ tm.text = Integer_tag
    THEN IF ~isinstance(p, "integer") THEN not_a_error(p, "an", "integer") ELSE NoErr
    ELSE IF tm.kind = "str" /\ tm.text = Real_tag
    THEN IF ~isinstance(p, "real") THEN not_a_error(p, "a", "real") ELSE NoErr
    ELSE IF tm.kind = "str" /\ tm.text = String_tag
    THEN IF ~isinstance(p, "string") THEN not_a_error(p, "a", "string") ELSE NoErr
    ELSE IF tm.kind = "str" /\ tm.text \in Bool_tags
    THEN IF ~isinstance_AppleXMLBool(p, tm.text) THEN not_a_error(p, "a", "bool") ELSE NoErr
    ELSE IF tm.kind = "str" THEN unsupported_value_error(tm.text)
    ELSE unsupported_type_error

ParsedPrimitiveTypes_validate(p, tm) == validate_rec(p, tm)

-----------------------------------------------------------------------------
(* FieldsFilter.apply_on_dataframe.  A dataframe is [columns, index, rows]: *)
(* the labels of its columns, the labels of its rows, and its rows, each a  *)
(* sequence of cells, one per column.  A cell is a parsed value or the      *)
(* missing value NaN.  INCLUDE and EXCLUDE are [some, items]: None, or the  *)
(* entries [key, values] of the dict in order; a listed value is a          *)
(* str | None.                                                              *)

\* float('nan'), which fills the cells a record has no key for
NaN == Value("nan", None, <<>>)

DataFrame(columns, index, rows) == [columns |-> columns, index |-> index, rows |-> rows]

NoFrame == DataFrame(<<>>, <<>>, <<>>)

NoDict == [some |-> FALSE, items |-> <<>>]

SomeDict(items) == [some |-> TRUE, items |-> items]

FieldsFilter(include, exclude) == [INCLUDE |-> include, EXCLUDE |-> exclude]

NoFilter == FieldsFilter(NoDict, NoDict)

Filtered(frame) == [ok |-> TRUE, value |-> frame, err |-> NoErr]

FilterFailed(e) == [ok |-> FALSE, value |-> NoFrame, err |-> e]

\* a call inside a function: an exception of the call leaves the function, as
\* raised(e); after a return the function goes on with the value, as returned(v)
Call(outcome, raised(_), returned(_)) ==
    IF outcome.ok THEN returned(outcome.value) ELSE raised(outcome.err)

\* not input_dict: None or the empty dict
is_falsy(input_dict) == ~input_dict.some \/ input_dict.items = <<>>

\* key in df.columns
has_column(frame, xmlkey) ==
    \E c \in 1..Len(frame.columns) : AppleXMLKey_eq(frame.columns[c], xmlkey)

\* df[xmlkey], for a key in df.columns: the cells of the column, one per row
column(frame, xmlkey) ==
    LET c == CHOOSE c \in 1..Len(frame.columns) : AppleXMLKey_eq(frame.columns[c], xmlkey) IN
    [r \in 1..Len(frame.rows) |-> frame.rows[r][c]]

\* df[xmlkey], for a key not in df.columns
column_key_error(xmlkey) == Raise("KeyError", <<"AppleXMLKey ">> \o Format(xmlkey))

\* x != x
is_missing(x) == x.kind = "nan"

\* the lambda applied to the cell x, for one listed value
cell_passes(is_INCLUDE, value_str, x) ==
    IF value_str = None
    THEN IF is_INCLUDE THEN is_missing(x) ELSE ~is_missing(x)
    ELSE IF is_INCLUDE
         THEN IF ~is_missing(x) THEN wrapper_get_text(x) = value_str ELSE FALSE
         ELSE IF ~is_missing(x) THEN wrapper_get_text(x) # value_str ELSE TRUE

\* or_bool_series after the loop over values_list: the series of one key.  The key is
\* read and the column is taken inside the loop, so an empty list reads nothing.
or_bool_series(frame, is_INCLUDE, key_text, values_list) ==
    IF values_list = <<>>
    THEN [ok |-> TRUE, value |-> [r \in 1..Len(frame.rows) |-> FALSE], err |-> NoErr]
    ELSE LET xmlkey == AppleXMLKey_fromstr(key_text) IN
         IF ~xmlkey.ok THEN [ok |-> FALSE, value |-> <<>>, err |-> xmlkey.err]
         ELSE IF ~has_column(frame, xmlkey.value)
         THEN [ok |-> FALSE, value |-> <<>>, err |-> column_key_error(xmlkey.value)]
         ELSE [ok |-> TRUE,
               value |-> [r \in 1..Len(frame.rows) |->
                            \E j \in 1..Len(values_list) :
                                cell_passes(is_INCLUDE, values_list[j],
                                            column(frame, xmlkey.value)[r])],
               err |-> NoErr]

\* the entries the two loops walk: those of INCLUDE, then those of EXCLUDE
filter_entries(ff) ==
    [i \in 1..Len(ff.INCLUDE.items) |->
        [is_INCLUDE |-> TRUE, key |-> ff.INCLUDE.items[i].key,
         values |-> ff.INCLUDE.items[i].values]]
    \o [i \in 1..Len(ff.EXCLUDE.items) |->
        [is_INCLUDE |-> FALSE, key |-> ff.EXCLUDE.items[i].key,
         values |-> ff.EXCLUDE.items[i].values]]

RECURSIVE and_bool_series(_, _, _)
\* and_bool_series after the entries from the i-th on: the first error is the outcome
and_bool_series(frame, entries, i) ==
    IF i > Len(entries)
    THEN [ok |-> TRUE, value |-> [r \in 1..Len(frame.rows) |-> TRUE], err |-> NoErr]
    ELSE LET head == or_bool_series(frame, entries[i].is_INCLUDE, entries[i].key,
                                    entries[i].values) IN
         IF ~head.ok THEN head
         ELSE LET rest == and_bool_series(frame, entries, i + 1) IN
              IF ~rest.ok THEN rest
              ELSE [ok |-> TRUE,
                    value |-> [r \in 1..Len(frame.rows) |-> head.value[r] /\ rest.value[r]],
                    err |-> NoErr]

RECURSIVE true_positions(_, _)
\* the positions of a boolean series that hold True, in order
true_positions(series, i) ==
    IF i > Len(series) THEN <<>>
    ELSE (IF series[i] THEN <<i>> ELSE <<>>) \o true_positions(series, i + 1)

\* df.loc[series]
loc(frame, series) ==
    LET at == true_positions(series, 1) IN
    DataFrame(frame.columns, [k \in 1..Len(at) |-> frame.index[at[k]]],
              [k \in 1..Len(at) |-> frame.rows[at[k]]])

FieldsFilter_apply_on_dataframe(ff, frame) ==
    IF is_falsy(ff.INCLUDE) /\ is_falsy(ff.EXCLUDE) THEN Filtered(frame)
    ELSE LET series == and_bool_series(frame, filter_entries(ff), 1) IN
         IF ~series.ok THEN FilterFailed(series.err)
         ELSE Filtered(loc(frame, series.value))

-----------------------------------------------------------------------------
(* AppleXMLKeyedPart.get_value and IphotoMasterImageList.from_xml.  The     *)
(* element given is the one the XPath of the part finds in the file.        *)

AppleXMLKeyedPart(target_key, target_value_types) ==
    [TARGET_KEY |-> target_key, TARGET_VALUE_TYPES |-> target_value_types]

NoKeyedPart == AppleXMLKeyedPart(<<>>, [kind |-> "none", text |-> <<>>, items |-> <<>>])

\* raise KeyError(target_xmlkey.get_text())
target_key_error(xmlkey) == Raise("KeyError", Format(xmlkey))

\* keyed_part.get_value(), over the element found
AppleXMLKeyedPart_get_value(part, target_xmldict_raw) ==
    LET target_xmldict == AppleXMLDict(target_xmldict_raw) IN
    IF ~target_xmldict.ok
    THEN [ok |-> FALSE, value |-> Element("none", None, <<>>), err |-> target_xmldict.err]
    ELSE LET target_xmlkey == AppleXMLKey_fromstr(part.TARGET_KEY) IN
         IF ~target_xmlkey.ok
         THEN [ok |-> FALSE, value |-> Element("none", None, <<>>), err |-> target_xmlkey.err]
         ELSE IF ~key_in_dict(target_xmlkey.value, target_xmldict.value)
         THEN [ok |-> FALSE, value |-> Element("none", None, <<>>),
               err |-> target_key_error(target_xmlkey.value)]
         ELSE [ok |-> TRUE, value |-> dict_getitem(target_xmldict.value, target_xmlkey.value),
               err |-> NoErr]

should_be_a_dict_error(p) ==
    Raise("ValueError",
          <<"\"MASTER_IMAGE_LIST\" > \"TARGET_VALUE_TYPES\" should be a dict, but \"",
            type_of(p), "\".">>)

should_be_a_dict_of_a_dict_error(v) ==
    Raise("ValueError",
          <<"\"MASTER_IMAGE_LIST\" > \"TARGET_VALUE_TYPES\" should be a dict of a dict, ",
            "but a dict of \"", type_of(v), "\".">>)

\* list(...)[0] of an empty list
list_index_error == Raise("IndexError", <<"list index out of range">>)

\* the shape check of from_xml: the error it raises, or none
master_image_list_shape_error(p) ==
    IF p.kind # "dict" THEN should_be_a_dict_error(p)
    ELSE IF p.items = <<>> THEN list_index_error
    ELSE IF p.items[1].value.kind # "dict" THEN should_be_a_dict_of_a_dict_error(p.items[1].value)
    ELSE NoErr

RECURSIVE union_of_keys(_, _, _)
\* the keys of the dicts among the values from the i-th on that are not in seen, in
\* the order they first appear
union_of_keys(values, i, seen) ==
    IF i > Len(values) THEN seen
    ELSE LET inner == IF values[i].kind = "dict" THEN values[i].items ELSE <<>> IN
         LET new == SelectSeq([k \in 1..Len(inner) |-> inner[k].key],
                              LAMBDA key : \A c \in 1..Len(seen) : ~AppleXMLKey_eq(seen[c], key)) IN
         union_of_keys(values, i + 1, seen \o new)

\* the cell of a record for a column: its value under the key, NaN without the key;
\* a value that is a leaf fills every column
cell_of(record, key) ==
    IF record.kind # "dict" THEN record
    ELSE IF key_in_dict(key, record.items) THEN dict_getitem(record.items, key)
    ELSE NaN

\* pd.DataFrame(d).T of a dict whose first value is a dict: a row per key of d, a
\* column per key of the inner dicts
transposed_df(d) ==
    LET columns == union_of_keys([i \in 1..Len(d.items) |-> d.items[i].value], 1, <<>>) IN
    DataFrame(columns,
              [i \in 1..Len(d.items) |-> d.items[i].key],
              [i \in 1..Len(d.items) |->
                  [c \in 1..Len(columns) |-> cell_of(d.items[i].value, columns[c])]])

IphotoMasterImageList_from_xml(part, target_xmldict_raw) ==
    Call(AppleXMLKeyedPart_get_value(part, target_xmldict_raw),
         FilterFailed, LAMBDA target_xml_part :
    Call(parse_into_primitive_types(target_xml_part),
         FilterFailed, LAMBDA iphoto_master_image_list :
    LET invalid == ParsedPrimitiveTypes_validate(iphoto_master_image_list,
                                                 part.TARGET_VALUE_TYPES) IN
    IF invalid # NoErr THEN FilterFailed(invalid)
    ELSE LET shape == master_image_list_shape_error(iphoto_master_image_list) IN
         IF shape # NoErr THEN FilterFailed(shape)
         ELSE Filtered(transposed_df(iphoto_master_image_list))))

-----------------------------------------------------------------------------
(* IphotoListOfAlbums.from_xml and                                          *)
(* IphotoListOfAlbumsWithMasterImageInfo.create_album_composition_txts.     *)
(* A dict of Python is the sequence of its entries [key, value]; the files  *)
(* of the output directory are the entries [name, content] written so far,  *)
(* a name written again taking the new content.                             *)

should_be_a_list_error(p) ==
    Raise("ValueError",
          <<"\"LIST_OF_ALBUMS\" > \"TARGET_VALUE_TYPES\" should be a list, but \"",
            type_of(p), "\".">>)

should_be_a_list_of_a_dict_error(v) ==
    Raise("ValueError",
          <<"\"LIST_OF_ALBUMS\" > \"TARGET_VALUE_TYPES\" should be a list of a dict, ",
            "but a list of \"", type_of(v), "\".">>)

\* the shape check of IphotoListOfAlbums.from_xml: the error it raises, or none
list_of_albums_shape_error(p) ==
    IF p.kind # "list" THEN should_be_a_list_error(p)
    ELSE IF p.items = <<>> THEN list_index_error
    ELSE IF p.items[1].kind # "dict" THEN should_be_a_list_of_a_dict_error(p.items[1])
    ELSE NoErr

\* pd.DataFrame(records) of a list of dicts: a row per record, a column per key
df_of_records(records) ==
    LET columns == union_of_keys(records.items, 1, <<>>) IN
    DataFrame(columns,
              [i \in 1..Len(records.items) |-> i - 1],
              [i \in 1..Len(records.items) |->
                  [c \in 1..Len(columns) |-> cell_of(records.items[i], columns[c])]])

IphotoListOfAlbums_from_xml(part, target_xmldict_raw) ==
    Call(AppleXMLKeyedPart_get_value(part, target_xmldict_raw),
         FilterFailed, LAMBDA target_xml_part :
    Call(parse_into_primitive_types(target_xml_part),
         FilterFailed, LAMBDA iphoto_list_of_albums :
    LET invalid == ParsedPrimitiveTypes_validate(iphoto_list_of_albums,
                                                 part.TARGET_VALUE_TYPES) IN
    IF invalid # NoErr THEN FilterFailed(invalid)
    ELSE LET shape == list_of_albums_shape_error(iphoto_list_of_albums) IN
         IF shape # NoErr THEN FilterFailed(shape)
         ELSE Filtered(df_of_records(iphoto_list_of_albums))))

\* the dict of the row at r: df.loc[key].to_dict(), df.to_dict(orient='records')[r]
row_dict(frame, r) ==
    [c \in 1..Len(frame.columns) |-> [key |-> frame.columns[c], value |-> frame.rows[r][c]]]

\* IphotoListOfAlbums.__iter__
albums_of(frame) == [r \in 1..Len(frame.rows) |-> row_dict(frame, r)]

\* IphotoMasterImageList.__contains__: key in df.index
master_image_list_contains(frame, xmlkey) ==
    \E r \in 1..Len(frame.index) : AppleXMLKey_eq(frame.index[r], xmlkey)

\* IphotoMasterImageList.__getitem__, for a key in the index
master_image_list_getitem(frame, xmlkey) ==
    row_dict(frame, CHOOSE r \in 1..Len(frame.index) : AppleXMLKey_eq(frame.index[r], xmlkey))

Returned(v) == [ok |-> TRUE, value |-> v, err |-> NoErr]

Raised(e) == [ok |-> FALSE, value |-> None, err |-> e]

\* raise KeyError(field_name)
field_name_key_error(field_name) == Raise("KeyError", field_name)

\* __get_value_by_field_name(_object, field_name)
get_value_by_field_name(object, field_name) ==
    LET field_name_xmlkey == AppleXMLKey_fromstr(field_name) IN
    IF ~field_name_xmlkey.ok THEN Raised(field_name_xmlkey.err)
    ELSE IF ~key_in_dict(field_name_xmlkey.value, object)
    THEN Raised(field_name_key_error(field_name))
    ELSE Returned(dict_getitem(object, field_name_xmlkey.value))

no_get_text_error(x) ==
    Raise("AttributeError", <<"'", type_of(x), "' object has no attribute 'get_text'">>)

\* x.get_text() of a cell: only the wrappers of the leaves have the method
cell_get_text(x) ==
    IF x.kind \in {"nan", "dict", "list"} THEN Raised(no_get_text_error(x))
    ELSE Returned(wrapper_get_text(x))

not_iterable_error(x) ==
    Raise("TypeError", <<"'", type_of(x), "' object is not iterable">>)

\* the objects a for loop over the value of the key list walks
iterated(x) ==
    IF x.kind = "list" THEN Returned(x.items)
    ELSE IF x.kind = "dict" THEN Returned([i \in 1..Len(x.items) |-> Value("key", x.items[i].key, <<>>)])
    ELSE Raised(not_iterable_error(x))

\* a message that does not tell the key
not_found_without_key(image_key_str) ==
    <<"Key is not found in the Master Image List.">>

\* dummy_image_path_str
not_found_in_master_image_list(image_key_str) ==
    <<"Key \"">> \o Format(image_key_str) \o <<"\" is not found in the Master Image List.">>

\* the body of the loop over the keys: what one key appends to image_path_str_list,
\* a str | None
image_path_str(master_frame, target_fields_config, image_key_xmlstring) ==
    Call(cell_get_text(image_key_xmlstring), Raised, LAMBDA image_key_str :
    Call(AppleXMLKey_fromstr(Format(image_key_str)), Raised, LAMBDA image_key_xmlkey :
    IF ~master_image_list_contains(master_frame, image_key_xmlkey)
    THEN Returned(Some(not_found_in_master_image_list(image_key_str)))
    ELSE LET master_image == master_image_list_getitem(master_frame, image_key_xmlkey) IN
    Call(get_value_by_field_name(master_image, target_fields_config.MASTER_IMAGE_LIST.IMAGE_PATH),
         Raised, LAMBDA image_path_xmlstring :
    Call(get_value_by_field_name(master_image, target_fields_config.MASTER_IMAGE_LIST.ORIGINAL_PATH),
         Raised, LAMBDA original_path_xmlstring :
    IF is_missing(original_path_xmlstring) THEN cell_get_text(image_path_xmlstring)
    ELSE Call(cell_get_text(original_path_xmlstring), Raised, LAMBDA original_path :
    IF original_path # Some(<<>>) THEN Returned(original_path)
    ELSE cell_get_text(image_path_xmlstring))))))

RECURSIVE image_path_str_list(_, _, _, _)
\* image_path_str_list after the keys from the i-th on; the first error ends the loop
image_path_str_list(master_frame, target_fields_config, image_keys, i) ==
    IF i > Len(image_keys) THEN Returned(<<>>)
    ELSE Call(image_path_str(master_frame, target_fields_config, image_keys[i]),
              Raised, LAMBDA head :
         Call(image_path_str_list(master_frame, target_fields_config, image_keys, i + 1),
              Raised, LAMBDA rest : Returned(<<head>> \o rest)))

TargetFieldsConfig(image_path, original_path, album_id, album_type, album_name, key_list) ==
    [MASTER_IMAGE_LIST |-> [IMAGE_PATH |-> image_path, ORIGINAL_PATH |-> original_path],
     LIST_OF_ALBUMS |-> [ALBUM_ID |-> album_id, ALBUM_TYPE |-> album_type,
                         ALBUM_NAME |-> album_name, MASTER_IMAGE_KEY_LIST |-> key_list]]

NoTargetFields == TargetFieldsConfig(<<>>, <<>>, <<>>, <<>>, <<>>, <<>>)

AlbumCompositionFileNameConfig(padding, char_to_join, escape_char) ==
    [ALBUM_ID_ZERO_PADDING_LENGETH |-> padding, CHAR_TO_JOIN_VALUES |-> char_to_join,
     ALBUM_NAME_ESCAPE_CHAR |-> escape_char]

\* GENERATE false: the other fields are None
NoTxtConfig == [GENERATE |-> FALSE, NAME_CONFIG |-> AlbumCompositionFileNameConfig(0, "", "")]

AlbumCompositionFileConfig(name_config) == [GENERATE |-> TRUE, NAME_CONFIG |-> name_config]

\* CharsToEscapeInPath.__CHARS
CharsToEscapeInPath == {"\"", "<", ">", ":", "/", "\\", "|", "?", "*"}

\* str.zfill(width): zeros on the left, after a sign
zfill(str, width) ==
    IF Len(str) >= width THEN str
    ELSE LET zeros == [i \in 1..(width - Len(str)) |-> "0"] IN
         IF str # <<>> /\ str[1] \in {"+", "-"} THEN <<str[1]>> \o zeros \o Tail(str)
         ELSE zeros \o str

no_zfill_error == Raise("AttributeError", <<"'NoneType' object has no attribute 'zfill'">>)

expected_string_error == Raise("TypeError", <<"expected string or bytes-like object">>)

expected_str_instance_error ==
    Raise("TypeError", <<"sequence item: expected str instance, NoneType found">>)

\* NAME_CONFIG.generate_txt_file_name(...)
generate_txt_file_name(name_config, album_id_xmlinteger, album_type_xmlstring, album_name_xmlstring) ==
    Call(cell_get_text(album_id_xmlinteger), Raised, LAMBDA album_id_str :
    IF ~album_id_str.some THEN Raised(no_zfill_error)
    ELSE Call(cell_get_text(album_name_xmlstring), Raised, LAMBDA album_name_str :
    IF ~album_name_str.some THEN Raised(expected_string_error)
    ELSE Call(cell_get_text(album_type_xmlstring), Raised, LAMBDA album_type_str :
    IF ~album_type_str.some THEN Raised(expected_str_instance_error)
    ELSE Returned(
           str_join(<<name_config.CHAR_TO_JOIN_VALUES>>,
                    <<zfill(album_id_str.val, name_config.ALBUM_ID_ZERO_PADDING_LENGETH),
                      album_type_str.val,
                      [i \in 1..Len(album_name_str.val) |->
                          IF album_name_str.val[i] \in CharsToEscapeInPath
                          THEN name_config.ALBUM_NAME_ESCAPE_CHAR
                          ELSE album_name_str.val[i]]>>)
           \o <<".txt">>))))

\* open(txt_file_path, 'w') and write: the file of that name holds the content
write_file(files, name, content) ==
    IF \E f \in 1..Len(files) : files[f].name = name
    THEN [f \in 1..Len(files) |->
            IF files[f].name = name THEN [name |-> name, content |-> content] ELSE files[f]]
    ELSE Append(files, [name |-> name, content |-> content])

cannot_open_error == Raise("OSError", <<"cannot open the file">>)

\* the body of the loop over the albums: the file name and the content of one album
album_composition_txt(master_frame, target_fields_config, config, album) ==
    Call(get_value_by_field_name(album, target_fields_config.LIST_OF_ALBUMS.MASTER_IMAGE_KEY_LIST),
         Raised, LAMBDA key_list :
    Call(iterated(key_list), Raised, LAMBDA image_keys :
    Call(image_path_str_list(master_frame, target_fields_config, image_keys, 1),
         Raised, LAMBDA paths :
    Call(get_value_by_field_name(album, target_fields_config.LIST_OF_ALBUMS.ALBUM_ID),
         Raised, LAMBDA album_id :
    Call(get_value_by_field_name(album, target_fields_config.LIST_OF_ALBUMS.ALBUM_TYPE),
         Raised, LAMBDA album_type :
    Call(get_value_by_field_name(album, target_fields_config.LIST_OF_ALBUMS.ALBUM_NAME),
         Raised, LAMBDA album_name :
    Call(generate_txt_file_name(config.NAME_CONFIG, album_id, album_type, album_name),
         Raised, LAMBDA txt_file_name :
    IF \E i \in 1..Len(paths) : ~paths[i].some
    THEN Raised(expected_str_instance_error)
    ELSE Returned([name |-> txt_file_name,
                   content |-> str_join(<<"\n">>, [i \in 1..Len(paths) |-> paths[i].val])]))))))))

RECURSIVE write_album_composition_txts(_, _, _, _, _, _, _)
\* the loop over the albums from the i-th on: the files written, and the error that
\* ended the loop if one did.  The directory takes the files or none of them.
write_album_composition_txts(master_frame, albums, target_fields_config, config, writable, files, i) ==
    IF i > Len(albums) THEN [ok |-> TRUE, value |-> files, err |-> NoErr]
    ELSE Call(album_composition_txt(master_frame, target_fields_config, config, albums[i]),
              LAMBDA e : [ok |-> FALSE, value |-> files, err |-> e],
              LAMBDA txt :
         IF ~writable THEN [ok |-> FALSE, value |-> files, err |-> cannot_open_error]
         ELSE write_album_composition_txts(
                  master_frame, albums, target_fields_config, config, writable,
                  write_file(files, txt.name, txt.content), i + 1))

create_album_composition_txts(master_frame, albums_frame, target_fields_config, config, writable, files) ==
    IF ~config.GENERATE THEN [ok |-> TRUE, value |-> files, err |-> NoErr]
    ELSE write_album_composition_txts(master_frame, albums_of(albums_frame), target_fields_config,
                                      config, writable, files, 1)

-----------------------------------------------------------------------------
(* The script parse_iphoto_album_data_xml: the Config, the CSV writers and  *)
(* the three parts of the run.  A CSV file is the dataframe of texts handed *)
(* to the writer of pandas.                                                 *)

OutputCsvConfig(generate, list_and_dict_delimiter) ==
    [GENERATE |-> generate, LIST_AND_DICT_DELIMITER |-> list_and_dict_delimiter]

\* FIELDS_FILTER of ProcessConfig: None, or the two filters, each None or a FieldsFilter
NoFieldsFilters ==
    [some |-> FALSE, MASTER_IMAGE_LIST |-> [some |-> FALSE, val |-> NoFilter],
     LIST_OF_ALBUMS |-> [some |-> FALSE, val |-> NoFilter]]

FieldsFilterDictConfig(master_image_list_filter, list_of_albums_filter) ==
    [some |-> TRUE, MASTER_IMAGE_LIST |-> master_image_list_filter,
     LIST_OF_ALBUMS |-> list_of_albums_filter]

Config(master_part, albums_part, filters, fields, master_csv, albums_csv, txt) ==
    [INPUT |-> [TARGET_XML_KEY_INFO |-> [MASTER_IMAGE_LIST |-> master_part,
                                         LIST_OF_ALBUMS |-> albums_part]],
     PROCESS |-> [FIELDS_FILTER |-> filters, TARGET_FIELDS |-> fields],
     OUTPUT |-> [CSV |-> [MASTER_IMAGE_LIST |-> master_csv, LIST_OF_ALBUMS |-> albums_csv],
                 TXT |-> [ALBUM_COMPOSITION |-> txt]]]

NoConfig ==
    Config(NoKeyedPart, NoKeyedPart, NoFieldsFilters, NoTargetFields,
           OutputCsvConfig(FALSE, <<>>), OutputCsvConfig(FALSE, <<>>), NoTxtConfig)

\* filter(fields_filter) of the two lists: the list itself for None
filter(frame, filter_or_none) ==
    IF ~filter_or_none.some THEN Filtered(frame)
    ELSE FieldsFilter_apply_on_dataframe(filter_or_none.val, frame)

\* the dataframe of texts to_csv writes: get_text of the labels and of the cells; the
\* index is written for the Master Image List only
texts_to_csv(frame, list_and_dict_delimiter, with_index) ==
    DataFrame([c \in 1..Len(frame.columns) |->
                  ParsedPrimitiveTypes_get_text(Value("key", frame.columns[c], <<>>), list_and_dict_delimiter, 0)],
              IF with_index
              THEN [r \in 1..Len(frame.index) |->
                      ParsedPrimitiveTypes_get_text(Value("key", frame.index[r], <<>>), list_and_dict_delimiter, 0)]
              ELSE <<>>,
              [r \in 1..Len(frame.rows) |->
                  [c \in 1..Len(frame.columns) |->
                      ParsedPrimitiveTypes_get_text(frame.rows[r][c], list_and_dict_delimiter, r)]])

\* to_csv(config): the files after it, or the error of a file that cannot be written
to_csv(frame, csv_config, with_index, name, writable, files) ==
    IF ~csv_config.GENERATE THEN [ok |-> TRUE, value |-> files, err |-> NoErr]
    ELSE IF ~writable THEN [ok |-> FALSE, value |-> files, err |-> cannot_open_error]
    ELSE [ok |-> TRUE,
          value |-> write_file(files, name,
                               texts_to_csv(frame, csv_config.LIST_AND_DICT_DELIMITER, with_index)),
          err |-> NoErr]

\* the body of a try of the first two parts: load, filter, CSV.  The outcome is the
\* list the variable holds at the end, and the files.
load_filter_csv(loaded, filters, filter_or_none, csv_config, with_index, name, writable, files) ==
    LET raised(e) == [ok |-> FALSE, value |-> NoFrame, err |-> e, files |-> files] IN
    Call(loaded, raised, LAMBDA list :
    Call(IF filters.some THEN filter(list, filter_or_none) ELSE Filtered(list),
         raised, LAMBDA kept :
    Call(to_csv(kept, csv_config, with_index, name, writable, files),
         raised, LAMBDA written :
    [ok |-> TRUE, value |-> kept, err |-> NoErr, files |-> written])))

StartMessage == "\"parse_iphoto_album_data_xml.py\" start!"
NeedsConfigMessage == "This script needs a config file path as an arg."
FailedConfigMessage == "Failed to parse the config file."
MasterImageListMessage == "Processing the \"Master Image List\" part in an XML..."
FailedMasterImageListMessage == "Failed to process the \"Master Image List\" part in an XML."
ListOfAlbumsMessage == "Processing the \"List of Albums\" part in an XML..."
FailedListOfAlbumsMessage == "Failed to process the \"List of Albums\" part in an XML."
JoiningMessage == "Joining master images info to albums..."
FailedJoiningMessage == "Failed to join master images info to albums."
DoneMessage == "\"parse_iphoto_album_data_xml.py\" done!"

\* a try that lets the run go on whatever its outcome
after_try_goes_on(succeeded, next) == next

\* where the run is after a try: at the next part, or ended by sys.exit(1) in the
\* except clause
after_try(succeeded, next) == IF succeeded THEN next ELSE "exited"

\* the messages of a try: logger.exception in the except clause
log_of_try(succeeded, failed_message) == IF succeeded THEN <<>> ELSE <<failed_message>>

\* the exit status after a try: sys.exit(1) in the except clause
exit_status_of_try(succeeded, status) == IF succeeded THEN status ELSE <<1>>

-----------------------------------------------------------------------------
(* The constructors of the wrappers, given any object.  The object is told  *)
(* by its class (arg_type) and, when it is an AppleXML or an ElementTree    *)
(* element, by the element it holds.                                        *)

Classes ==
    {"AppleXMLKey", "AppleXMLDict", "AppleXMLArray", "AppleXMLInteger", "AppleXMLReal",
     "AppleXMLString", "AppleXMLBool"}

\* the __TAG of a class
TAG(c) ==
    IF c = "AppleXMLKey" THEN "key"
    ELSE IF c = "AppleXMLDict" THEN "dict"
    ELSE IF c = "AppleXMLArray" THEN "array"
    ELSE IF c = "AppleXMLInteger" THEN "integer"
    ELSE IF c = "AppleXMLReal" THEN "real"
    ELSE "string"

\* isinstance(apple_xml, AppleXML)
isinstance_AppleXML_any(type) == TRUE

isinstance_AppleXML(type) == type = "AppleXML"

\* AppleXMLKey, AppleXMLDict, AppleXMLArray
not_apple_xml_error(type) ==
    Raise("TypeError", <<"The argument is not AppleXML object, got ", type, ".">>)

\* AppleXMLInteger, AppleXMLReal, AppleXMLString, AppleXMLBool
not_apple_xml_object_error(type) ==
    Raise("TypeError",
          <<"The argument is not AppleXML object, got \"", "<object>", "\" [", type, "].">>)

wrong_bool_tag_error(tag) ==
    Raise("ValueError",
          <<"The argument is not Apple original xml tag \"true\" nor \"false\", but \"", tag, "\".">>)

\* c(apple_xml), for an object of the class type
new_wrapper(c, type, xml) ==
    LET tag == get_tag(xml) IN
    IF ~isinstance_AppleXML(type)
    THEN Failed(IF c \in {"AppleXMLKey", "AppleXMLDict", "AppleXMLArray"}
                THEN not_apple_xml_error(type) ELSE not_apple_xml_object_error(type))
    ELSE IF c = "AppleXMLDict"
    THEN LET d == AppleXMLDict(xml) IN
         IF d.ok THEN Parsed(Value("AppleXMLDict", None, d.value)) ELSE Failed(d.err)
    ELSE IF c = "AppleXMLArray"
    THEN LET a == AppleXMLArray(xml) IN
         IF a.ok THEN Parsed(Value("AppleXMLArray", None, a.value)) ELSE Failed(a.err)
    ELSE IF c = "AppleXMLBool"
    THEN IF tag \notin AppleXMLBool_get_tags THEN Failed(wrong_bool_tag_error(tag))
         ELSE Parsed(AppleXMLBool(xml))
    ELSE IF tag # TAG(c) THEN Failed(wrong_tag_error(TAG(c), tag))
    ELSE IF c = "AppleXMLKey" THEN Parsed(Value("key", AppleXML_get_text(xml), <<>>))
    ELSE Parsed(AppleXMLLeaf(xml))

\* hash(text) of a str | None: a function of the text alone, and the text stands for
\* it; that two texts may share a hash is left out
hash(txt) == txt

\* AppleXMLString.__eq__ comparing what get_text returns
AppleXMLString_eq_normalized(v, w) == AppleXMLString_get_text(v) = AppleXMLString_get_text(w)

\* AppleXMLString.__eq__, for two AppleXMLString
AppleXMLString_eq(v, w) == v.text = w.text

AppleXMLString_hash(v) == hash(v.text)

\* AppleXMLKey.__hash__, of the key of this text
AppleXMLKey_hash(key) == hash(key)

\* v == w and hash(v) == hash(w), for two wrappers of the class c
compare(c, v, w) ==
    IF c = "AppleXMLString"
    THEN [eq |-> AppleXMLString_eq(v, w), hash_eq |-> AppleXMLString_hash(v) = AppleXMLString_hash(w)]
    ELSE [eq |-> AppleXMLKey_eq(v.text, w.text),
          hash_eq |-> AppleXMLKey_hash(v.text) = AppleXMLKey_hash(w.text)]

-----------------------------------------------------------------------------
(* The elements the operations are applied to.  An element without text    *)
(* has text None, never the empty text, as ElementTree reads it.           *)

KeyA == Element("key", Some(<<"A">>), <<>>)
KeyB == Element("key", Some(<<"B">>), <<>>)
KeyNone == Element("key", None, <<>>)
StrX == Element("string", Some(<<"x">>), <<>>)
StrNone == Element("string", None, <<>>)
StrAccent == Element("string", Some(<<"e", "U+0301">>), <<>>)
Int1 == Element("integer", Some(<<"1">>), <<>>)
Int2 == Element("integer", Some(<<"2">>), <<>>)
IntNone == Element("integer", None, <<>>)
Real1 == Element("real", Some(<<"1", ".", "5">>), <<>>)
True == Element("true", None, <<>>)
False == Element("false", None, <<>>)
\* date and data are plist tags the parser does not support
Date == Element("date", Some(<<"d">>), <<>>)
\* <integer>1<date>d</date></integer>: a leaf tag is wrapped whatever lies below it
IntWithChild == Element("integer", Some(<<"1">>), <<Date>>)

Array(children) == Element("array", None, children)
Dict(children) == Element("dict", None, children)

\* <dict><key>A</key><string>x</string><key>B</key>
\*   <array><integer>1</integer><integer>2</integer></array></dict>
EndToEndExample == Dict(<<KeyA, StrX, KeyB, Array(<<Int1, Int2>>)>>)

LeafElements ==
    {KeyA, KeyB, KeyNone, StrX, StrNone, StrAccent, Int1, Int2, IntNone, Real1, True, False, Date,
     IntWithChild}

\* the children of the flat containers
FlatChildren == {KeyA, KeyB, StrX, Int1, Date}

FlatContainers ==
    {Element(tag, None, cs) : tag \in {"dict", "array"}, cs \in SeqsUpTo(FlatChildren, MaxChildren)}

\* the children of the nested containers
InnerElements ==
    {KeyA, KeyB, KeyNone, StrX, StrNone, StrAccent, Int1, IntNone, True, Date,
     Array(<<>>), Array(<<Int1, Int2>>), Array(<<Date>>), Array(<<Array(<<Int1, Int2>>), Int2>>),
     Dict(<<>>), Dict(<<KeyA, StrX>>), Dict(<<KeyA, Date>>), Dict(<<Date, KeyA, KeyB>>),
     Dict(<<KeyB, Array(<<Int1, Int2>>)>>)}

NestedContainers ==
    {Element(tag, None, cs) : tag \in {"dict", "array"}, cs \in SeqsUpTo(InnerElements, MaxNested)}

Elements == LeafElements \cup FlatContainers \cup NestedContainers \cup {EndToEndExample}

\* the addresses a parse may allocate its objects at
Heaps == {"0x7f01", "0x7f02"}

Delimiters == {<<"|">>, <<",">>, <<";", " ">>}

NoOutcome == [ok |-> FALSE, value |-> NoValue, err |-> NoErr]

NoDescriptor == [kind |-> "none", text |-> <<>>, items |-> <<>>]

NoElement == Element("none", None, <<>>)

NoComparison == [eq |-> FALSE, hash_eq |-> FALSE]

\* no wrapper is constructed apart from the parse: the argument is an AppleXML
NoWrappers ==
    /\ arg_type = "AppleXML"
    /\ cls = "none"
    /\ wrapper = NoOutcome
    /\ other_xml = NoElement
    /\ other_wrapper = NoOutcome
    /\ compared = NoComparison

\* the normalizer is not called on a text of its own
NoDiacritics ==
    /\ plain_text = <<>>
    /\ precomposed = <<>>

\* no dataframe, no filter and nothing filtered
NoFilterCall ==
    /\ df = NoFrame
    /\ fields_filter = NoFilter
    /\ filtered = NoOutcome

\* no part of a file is loaded
NoFromXml ==
    /\ keyed_part = NoKeyedPart
    /\ master_image_list = NoOutcome

\* no albums are joined
NoAlbums ==
    /\ list_of_albums = NoOutcome
    /\ target_fields = NoTargetFields
    /\ txt_config = NoTxtConfig
    /\ dir_is_writable = TRUE
    /\ txts = NoOutcome

\* no script is run
NoRun ==
    /\ config_file = "none"
    /\ CONFIG = NoConfig
    /\ log = <<>>
    /\ exit_status = <<>>
    /\ csvs = <<>>

NoIphoto ==
    /\ NoFilterCall
    /\ NoFromXml
    /\ NoAlbums
    /\ NoRun

Init ==
    /\ apple_xml \in Elements
    /\ pc = "init"
    /\ heap = "none"
    /\ xmldict = NoOutcome
    /\ parsed = NoOutcome
    /\ delimiter = <<>>
    /\ text = None
    /\ types_mapping = NoDescriptor
    /\ validated = NoErr
    /\ text_again = None
    /\ NoWrappers
    /\ NoDiacritics
    /\ NoIphoto

\* xmldict = AppleXMLDict(apple_xml)
Construct ==
    /\ pc = "init"
    /\ xmldict' = AppleXMLDict(apple_xml)
    /\ pc' = "constructed"
    /\ UNCHANGED <<apple_xml, heap, parsed, delimiter, text, types_mapping, validated>>
    /\ UNCHANGED <<text_again, wrapper_vars, diacritics_vars, iphoto_vars>>

\* parsed = apple_xml.parse_into_primitive_types()
Parse ==
    /\ pc = "init"
    /\ \E h \in Heaps : heap' = h
    /\ parsed' = parse_into_primitive_types(apple_xml)
    /\ pc' = "parsed"
    /\ UNCHANGED <<apple_xml, xmldict, delimiter, text, types_mapping, validated>>
    /\ UNCHANGED <<text_again, wrapper_vars, diacritics_vars, iphoto_vars>>

\* text = ParsedPrimitiveTypes(parsed).get_text(delimiter)
GetText ==
    /\ pc = "parsed"
    /\ parsed.ok
    /\ \E d \in Delimiters :
          /\ delimiter' = d
          /\ text' = ParsedPrimitiveTypes_get_text(parsed.value, d, heap)
    /\ pc' = "flattened"
    /\ UNCHANGED <<apple_xml, heap, xmldict, parsed, types_mapping, validated>>
    /\ UNCHANGED <<text_again, wrapper_vars, diacritics_vars, iphoto_vars>>

\* text_again = ParsedPrimitiveTypes(parsed).get_text(delimiter), on the same tree
GetTextAgain ==
    /\ pc = "flattened"
    /\ text_again' = ParsedPrimitiveTypes_get_text(parsed.value, delimiter, heap)
    /\ pc' = "flattened again"
    /\ UNCHANGED <<apple_xml, heap, xmldict, parsed, delimiter, text, types_mapping, validated>>
    /\ UNCHANGED <<wrapper_vars, diacritics_vars, iphoto_vars>>

\* parsed = apple_xml.parse_into_primitive_types() once more, its objects allocated
\* anew, and text_again = ParsedPrimitiveTypes(parsed).get_text(delimiter)
ParseAgain ==
    /\ pc = "flattened"
    /\ \E h \in Heaps :
          /\ heap' = h
          /\ parsed' = parse_into_primitive_types(apple_xml)
          /\ text_again' =
                ParsedPrimitiveTypes_get_text(parse_into_primitive_types(apple_xml).value, delimiter, h)
    /\ pc' = "parsed again"
    /\ UNCHANGED <<apple_xml, xmldict, delimiter, text, types_mapping, validated>>
    /\ UNCHANGED <<wrapper_vars, diacritics_vars, iphoto_vars>>

Next == Construct \/ Parse \/ GetText \/ GetTextAgain \/ ParseAgain

Spec == Init /\ [][Next]_vars

-----------------------------------------------------------------------------
(* The data and the descriptors validate is applied to. *)

\* the most entries of a dict or a mapping descriptor, and elements of an array
\* or a sequence descriptor, drawn as input
MaxEntries == 2

Name == <<"N", "a", "m", "e">>
Extra == <<"E", "x", "t", "r", "a">>
Other == <<"O", "t", "h", "e", "r">>
\* a key text with a character XML escapes: <key>A&amp;B</key> in the file
AmpName == <<"A", "&", "B">>

KeyOf(txt) == Element("key", IF txt = <<>> THEN None ELSE Some(txt), <<>>)

\* the sequences over S of length at most n without a repeated element
DistinctSeqsUpTo(S, n) ==
    {q \in SeqsUpTo(S, n) : \A i, j \in 1..Len(q) : i # j => q[i] # q[j]}

RECURSIVE interleave(_, _)
\* key, value, key, value, ...
interleave(keys, values) ==
    IF keys = <<>> THEN <<>>
    ELSE <<KeyOf(Head(keys)), Head(values)>> \o interleave(Tail(keys), Tail(values))

DataKeys == {Name, Extra, AmpName}

DataValues == {StrX, Int1, Array(<<Int1>>)}

DataDicts ==
    {Dict(interleave(ks, vs)) :
        <<ks, vs>> \in {kv \in DistinctSeqsUpTo(DataKeys, MaxEntries) \X SeqsUpTo(DataValues, MaxEntries) :
                          Len(kv[1]) = Len(kv[2])}}

DataArrays == {Array(cs) : cs \in SeqsUpTo({StrX, Int1, True, Array(<<Int1>>)}, MaxEntries)}

ValidatedElements ==
    {StrX, StrNone, Int1, Real1, True, False} \cup DataDicts \cup DataArrays
        \cup {Dict(<<KeyOf(Name), Dict(<<KeyOf(Name), StrX, KeyOf(Extra), Int1>>)>>),
              Dict(<<KeyNone, Int1>>),
              Array(<<Dict(<<KeyOf(Name), StrX>>), Dict(<<KeyOf(Name), Int1>>)>>),
              Array(<<True, False>>)}

StrDescriptor(txt) == [kind |-> "str", text |-> txt, items |-> <<>>]
ListDescriptor(ds) == [kind |-> "list", text |-> <<>>, items |-> ds]
DictDescriptor(es) == [kind |-> "dict", text |-> <<>>, items |-> es]
\* a number, a boolean or None given as a descriptor
OtherDescriptor == [kind |-> "other", text |-> <<>>, items |-> <<>>]

\* a string that is no tag the validator knows
UnknownTag == <<"d", "a", "t", "e">>

LeafDescriptors ==
    {StrDescriptor(t) : t \in {Integer_tag, Real_tag, String_tag} \cup Bool_tags \cup {UnknownTag}}
        \cup {OtherDescriptor}

SubDescriptors ==
    {StrDescriptor(String_tag), StrDescriptor(Integer_tag),
     ListDescriptor(<<StrDescriptor(Integer_tag)>>),
     StrDescriptor(UnknownTag), OtherDescriptor}

DescriptorKeys == {Name, Extra, Other, AmpName}

DictDescriptors ==
    {DictDescriptor([i \in 1..Len(kv[1]) |-> [key |-> kv[1][i], value |-> kv[2][i]]]) :
        kv \in {kv \in DistinctSeqsUpTo(DescriptorKeys, MaxEntries) \X SeqsUpTo(SubDescriptors, MaxEntries) :
                  Len(kv[1]) = Len(kv[2])}}

ListDescriptors ==
    {ListDescriptor(ds) : ds \in SeqsUpTo(SubDescriptors, MaxEntries)}
        \cup {ListDescriptor(<<d>>) : d \in LeafDescriptors}

Descriptors ==
    LeafDescriptors \cup DictDescriptors \cup ListDescriptors
        \cup {DictDescriptor(<<[key |-> <<>>, value |-> StrDescriptor(String_tag)]>>),
              DictDescriptor(<<[key |-> Name,
                                value |-> DictDescriptor(<<[key |-> Extra,
                                                            value |-> StrDescriptor(String_tag)]>>)]>>),
              ListDescriptor(<<DictDescriptor(<<[key |-> Name, value |-> StrDescriptor(String_tag)]>>)>>),
              ListDescriptor(<<ListDescriptor(<<StrDescriptor(Integer_tag)>>)>>),
              DictDescriptor(<<[key |-> Other, value |-> ListDescriptor(<<>>)]>>),
              DictDescriptor(<<[key |-> Name, value |-> StrDescriptor(String_tag)],
                               [key |-> Other,
                                value |-> ListDescriptor(<<StrDescriptor(String_tag),
                                                           StrDescriptor(Integer_tag)>>)]>>),
              ListDescriptor(<<ListDescriptor(<<>>)>>),
              ListDescriptor(<<ListDescriptor(<<StrDescriptor(String_tag),
                                                StrDescriptor(Integer_tag)>>)>>)}

InitValidate ==
    /\ apple_xml \in ValidatedElements
    /\ pc = "init"
    /\ heap = "none"
    /\ xmldict = NoOutcome
    /\ parsed = NoOutcome
    /\ delimiter = <<>>
    /\ text = None
    /\ types_mapping = NoDescriptor
    /\ validated = NoErr
    /\ text_again = None
    /\ NoWrappers
    /\ NoDiacritics
    /\ NoIphoto

\* ParsedPrimitiveTypes(parsed).validate(types_mapping)
Validate ==
    /\ pc = "parsed"
    /\ parsed.ok
    /\ \E tm \in Descriptors :
          /\ types_mapping' = tm
          /\ validated' = ParsedPrimitiveTypes_validate(parsed.value, tm)
    /\ pc' = "validated"
    /\ UNCHANGED <<apple_xml, heap, xmldict, parsed, delimiter, text>>
    /\ UNCHANGED <<text_again, wrapper_vars, diacritics_vars, iphoto_vars>>

NextValidate == Parse \/ Validate

SpecValidate == InitValidate /\ [][NextValidate]_vars

-----------------------------------------------------------------------------
(* The wrappers constructed, read and compared on their own. *)

\* <true>y</true>
TrueWithText == Element("true", Some(<<"y">>), <<>>)
\* the one character U+00E9, where StrAccent holds e and U+0301
StrPrecomposed == Element("string", Some(<<"U+00E9">>), <<>>)
\* <key>A&amp;B</key> and <key>A&lt;B</key>
KeyAmp == Element("key", Some(<<"A", "&", "B">>), <<>>)
KeyLt == Element("key", Some(<<"A", "<", "B">>), <<>>)

WrappedElements ==
    LeafElements \cup FlatContainers \cup {TrueWithText, StrPrecomposed, KeyAmp, KeyLt}

\* the classes of the objects given to the constructors: an AppleXML, the ElementTree
\* element it holds, the XML text of the element
ArgTypes == {"AppleXML", "<class 'xml.etree.ElementTree.Element'>", "<class 'str'>"}

InitWrappers ==
    /\ apple_xml \in WrappedElements
    /\ arg_type \in ArgTypes
    /\ pc = "init"
    /\ heap = "none"
    /\ xmldict = NoOutcome
    /\ parsed = NoOutcome
    /\ delimiter = <<>>
    /\ text = None
    /\ types_mapping = NoDescriptor
    /\ validated = NoErr
    /\ text_again = None
    /\ cls = "none"
    /\ wrapper = NoOutcome
    /\ other_xml = NoElement
    /\ other_wrapper = NoOutcome
    /\ compared = NoComparison
    /\ NoDiacritics
    /\ NoIphoto

\* wrapper = cls(apple_xml)
Wrap ==
    /\ pc = "init"
    /\ \E c \in Classes :
          /\ cls' = c
          /\ wrapper' = new_wrapper(c, arg_type, apple_xml)
    /\ pc' = "wrapped"
    /\ UNCHANGED <<apple_xml, heap, xmldict, parsed, delimiter, text, types_mapping, validated>>
    /\ UNCHANGED <<text_again, arg_type, other_xml, other_wrapper, compared, diacritics_vars, iphoto_vars>>

\* text = wrapper.get_text()
WrapperGetText ==
    /\ pc = "wrapped"
    /\ wrapper.ok
    /\ cls \notin {"AppleXMLDict", "AppleXMLArray"}
    /\ text' = wrapper_get_text(wrapper.value)
    /\ pc' = "read"
    /\ UNCHANGED <<apple_xml, heap, xmldict, parsed, delimiter, types_mapping, validated>>
    /\ UNCHANGED <<text_again, wrapper_vars, diacritics_vars, iphoto_vars>>

\* other_wrapper = cls(other_xml); wrapper == other_wrapper, hash(wrapper) == hash(other_wrapper)
Compare ==
    /\ pc = "wrapped"
    /\ wrapper.ok
    /\ cls \in {"AppleXMLKey", "AppleXMLString"}
    /\ \E xml \in {e \in WrappedElements : get_tag(e) = TAG(cls)} :
          /\ other_xml' = xml
          /\ other_wrapper' = new_wrapper(cls, "AppleXML", xml)
          /\ compared' = compare(cls, wrapper.value, new_wrapper(cls, "AppleXML", xml).value)
    /\ pc' = "compared"
    /\ UNCHANGED <<apple_xml, heap, xmldict, parsed, delimiter, text, types_mapping, validated>>
    /\ UNCHANGED <<text_again, arg_type, cls, wrapper, diacritics_vars, iphoto_vars>>

\* other_wrapper = AppleXMLKey.fromstr(t), for the text t of the key element other_xml
\* ('' for an element without text); wrapper == other_wrapper and the hashes
FromStr ==
    /\ pc = "wrapped"
    /\ wrapper.ok
    /\ cls = "AppleXMLKey"
    /\ \E xml \in {e \in WrappedElements : get_tag(e) = "key"} :
          LET xmlkey == AppleXMLKey_fromstr(IF xml.text.some THEN xml.text.val ELSE <<>>) IN
          /\ other_xml' = xml
          /\ other_wrapper' = IF xmlkey.ok THEN Parsed(Value("key", xmlkey.value, <<>>))
                               ELSE Failed(xmlkey.err)
          /\ compared' = IF xmlkey.ok
                          THEN compare(cls, wrapper.value, Value("key", xmlkey.value, <<>>))
                          ELSE NoComparison
    /\ pc' = "fromstr"
    /\ UNCHANGED <<apple_xml, heap, xmldict, parsed, delimiter, text, types_mapping, validated>>
    /\ UNCHANGED <<text_again, arg_type, cls, wrapper, diacritics_vars, iphoto_vars>>

NextWrappers == Wrap \/ WrapperGetText \/ Compare \/ FromStr

SpecWrappers == InitWrappers /\ [][NextWrappers]_vars

-----------------------------------------------------------------------------
(* The normalizer applied to a text of its own. *)

\* the longest text given to the normalizer
MaxText == 3

Characters ==
    {"x", "e", "U+0301", "U+0302", "U+0323", "U+00E9", "U+00EA", "U+1EB9", "U+1EBF", "U+1EC7"}

InitDiacritics ==
    /\ plain_text \in SeqsUpTo(Characters, MaxText)
    /\ precomposed = <<>>
    /\ apple_xml = NoElement
    /\ pc = "init"
    /\ heap = "none"
    /\ xmldict = NoOutcome
    /\ parsed = NoOutcome
    /\ delimiter = <<>>
    /\ text = None
    /\ types_mapping = NoDescriptor
    /\ validated = NoErr
    /\ text_again = None
    /\ NoWrappers
    /\ NoIphoto

\* precomposed = Diacritics.replace_combining_chars_to_precomposed(plain_text)
Normalize ==
    /\ pc = "init"
    /\ precomposed' = replace_combining_chars_to_precomposed(plain_text)
    /\ pc' = "normalized"
    /\ UNCHANGED <<apple_xml, heap, xmldict, parsed, delimiter, text, types_mapping, validated>>
    /\ UNCHANGED <<text_again, wrapper_vars, plain_text, iphoto_vars>>

NextDiacritics == Normalize

SpecDiacritics == InitDiacritics /\ [][NextDiacritics]_vars

-----------------------------------------------------------------------------
(* The filter of the iPhoto tools, applied to a dataframe of the columns F *)
(* and H.                                                                   *)

MaxRows == 2

MaxValues == 2

FieldF == <<"F">>
FieldG == <<"G">>
FieldH == <<"H">>

\* the cells of the column F
Cells == {NaN, AppleXMLLeaf(StrX), AppleXMLLeaf(Int1), AppleXMLLeaf(StrNone)}

\* the dataframes: the column H holds an integer in every row
DataFrames ==
    {DataFrame(<<Some(FieldF), Some(FieldH)>>,
               [r \in 1..Len(cells) |-> Some(<<ToString(r)>>)],
               [r \in 1..Len(cells) |-> <<cells[r], AppleXMLLeaf(Int2)>>])
        : cells \in SeqsUpTo(Cells, MaxRows)}

\* the values a filter lists
ListedValues == {None, Some(<<"x">>), Some(<<"1">>)}

FilterEntry(key, values) == [key |-> key, values |-> values]

\* EXCLUDE: None, the empty dict, or one entry for a column or for no column
Excludes ==
    {NoDict, SomeDict(<<>>)}
    \cup {SomeDict(<<FilterEntry(key, values)>>)
            : key \in {FieldF, FieldG}, values \in SeqsUpTo(ListedValues, MaxValues)}

Includes ==
    {NoDict, SomeDict(<<>>),
     SomeDict(<<FilterEntry(FieldF, <<Some(<<"x">>)>>)>>),
     SomeDict(<<FilterEntry(FieldF, <<None>>)>>),
     SomeDict(<<FilterEntry(FieldH, <<Some(<<"2">>)>>), FilterEntry(FieldF, <<>>)>>),
     SomeDict(<<FilterEntry(AmpName, <<Some(<<"x">>)>>)>>)}

InitFilter ==
    /\ apple_xml = NoElement
    /\ pc = "init"
    /\ heap = "none"
    /\ xmldict = NoOutcome
    /\ parsed = NoOutcome
    /\ delimiter = <<>>
    /\ text = None
    /\ types_mapping = NoDescriptor
    /\ validated = NoErr
    /\ text_again = None
    /\ NoWrappers
    /\ NoDiacritics
    /\ df \in DataFrames
    /\ fields_filter \in {FieldsFilter(i, e) : i \in Includes, e \in Excludes}
    /\ filtered = NoOutcome
    /\ NoFromXml
    /\ NoAlbums
    /\ NoRun

\* filtered = fields_filter.apply_on_dataframe(df)
ApplyFilter ==
    /\ pc = "init"
    /\ filtered' = FieldsFilter_apply_on_dataframe(fields_filter, df)
    /\ pc' = "filtered"
    /\ UNCHANGED <<apple_xml, heap, xmldict, parsed, delimiter, text, types_mapping, validated>>
    /\ UNCHANGED <<text_again, wrapper_vars, diacritics_vars, df, fields_filter, from_xml_vars>>
    /\ UNCHANGED <<album_vars, run_vars>>

NextFilter == ApplyFilter

SpecFilter == InitFilter /\ [][NextFilter]_vars

-----------------------------------------------------------------------------
(* The load of the Master Image List from the dict of a file. *)

MaxImages == 2

ListKey == <<"L">>
MissingKey == <<"M">>
PathKey == <<"P">>
CaptionKey == <<"C">>

\* the values of the target dict: records of images, and a string
ImageValues ==
    {Dict(<<>>), Dict(<<KeyOf(PathKey), StrX>>), Dict(<<KeyOf(CaptionKey), StrX, KeyOf(PathKey), StrAccent>>),
     StrX}

\* the values under the target key
TargetValues ==
    {StrX, Array(<<>>), Array(<<Dict(<<>>)>>)}
        \cup {Dict(interleave([i \in 1..Len(values) |-> <<ToString(i)>>], values))
                : values \in SeqsUpTo(ImageValues, MaxImages)}

\* the dicts the XPath finds
TargetDicts == {Dict(<<KeyOf(ListKey), value>>) : value \in TargetValues}

TargetValueTypes ==
    {DictDescriptor(<<>>), StrDescriptor(String_tag),
     ListDescriptor(<<DictDescriptor(<<>>)>>), ListDescriptor(<<StrDescriptor(String_tag)>>)}

KeyedParts ==
    {AppleXMLKeyedPart(key, types) : key \in {ListKey, MissingKey}, types \in TargetValueTypes}

InitFromXml ==
    /\ apple_xml \in TargetDicts
    /\ pc = "init"
    /\ heap = "none"
    /\ xmldict = NoOutcome
    /\ parsed = NoOutcome
    /\ delimiter = <<>>
    /\ text = None
    /\ types_mapping = NoDescriptor
    /\ validated = NoErr
    /\ text_again = None
    /\ NoWrappers
    /\ NoDiacritics
    /\ NoFilterCall
    /\ keyed_part \in KeyedParts
    /\ master_image_list = NoOutcome
    /\ NoAlbums
    /\ NoRun

\* master_image_list = IphotoMasterImageList.from_xml(keyed_part)
FromXml ==
    /\ pc = "init"
    /\ master_image_list' = IphotoMasterImageList_from_xml(keyed_part, apple_xml)
    /\ pc' = "loaded"
    /\ UNCHANGED <<apple_xml, heap, xmldict, parsed, delimiter, text, types_mapping, validated>>
    /\ UNCHANGED <<text_again, wrapper_vars, diacritics_vars, filter_vars, keyed_part, album_vars>>
    /\ UNCHANGED run_vars

NextFromXml == FromXml

SpecFromXml == InitFromXml /\ [][NextFromXml]_vars

-----------------------------------------------------------------------------
(* The album composition files, for a Master Image List of the images 1 and *)
(* 2 and albums numbered from 1, whose key lists name the images 1, 2, 3.   *)

MaxAlbums == 2

ImagePathField == <<"P">>
OriginalPathField == <<"O">>
AlbumIdField == <<"I">>
AlbumTypeField == <<"T">>
AlbumNameField == <<"N">>
KeyListField == <<"K">>

StringOf(txt) == Element("string", Some(txt), <<>>)

\* the records of the image i: with both paths, with the image path only, with an
\* original path that has no text
ImageRecords(i) ==
    {Dict(<<KeyOf(ImagePathField), StringOf(<<"p", i>>),
            KeyOf(OriginalPathField), StringOf(<<"o", i>>)>>),
     Dict(<<KeyOf(ImagePathField), StringOf(<<"p", i>>)>>),
     Dict(<<KeyOf(ImagePathField), StringOf(<<"p", i>>), KeyOf(OriginalPathField), StrNone>>)}

\* the dataframes of the Master Image List: each of the images 1 and 2 is in it or not
MasterFrames ==
    {transposed_df(parse_into_primitive_types(Dict(one \o two)).value) :
        one \in {<<>>} \cup {<<KeyOf(<<"1">>), record>> : record \in ImageRecords("1")},
        two \in {<<>>} \cup {<<KeyOf(<<"2">>), record>> : record \in ImageRecords("2")}}

\* the key lists of an album
KeyLists ==
    {<<>>, <<"1">>, <<"3">>, <<"2", "1">>, <<"1", "3", "2">>, <<"3", "3">>}

AlbumName(i) == IF i = 1 THEN <<"a">> ELSE <<"a", "/", ToString(i)>>

\* the album i: with the key list keys, or without a key list
AlbumsAt(i) ==
    {Dict(<<KeyOf(AlbumIdField), Element("integer", Some(<<ToString(i)>>), <<>>),
            KeyOf(AlbumTypeField), StringOf(<<"t">>),
            KeyOf(AlbumNameField), StringOf(AlbumName(i))>> \o key_list)
        : key_list \in {<<>>} \cup
              {<<KeyOf(KeyListField), Array([k \in 1..Len(keys) |-> StringOf(<<keys[k]>>)])>>
                  : keys \in KeyLists}}

RECURSIVE AlbumLists(_)
\* the lists of n albums
AlbumLists(n) ==
    IF n = 0 THEN {<<>>}
    ELSE {Append(albums, album) : albums \in AlbumLists(n - 1), album \in AlbumsAt(n)}

\* the dataframes of the List of Albums; the one without rows is what a filter leaves
AlbumFrames ==
    {df_of_records(parse_into_primitive_types(Array(albums)).value) :
        albums \in UNION {AlbumLists(n) : n \in 1..MaxAlbums}}
    \cup {DataFrame(<<Some(AlbumIdField), Some(AlbumTypeField), Some(AlbumNameField),
                      Some(KeyListField)>>, <<>>, <<>>)}

TargetFields ==
    {TargetFieldsConfig(ImagePathField, OriginalPathField, AlbumIdField, AlbumTypeField,
                        AlbumNameField, key_list) : key_list \in {KeyListField, MissingKey}}

TxtConfigs ==
    {NoTxtConfig, AlbumCompositionFileConfig(AlbumCompositionFileNameConfig(2, "-", "_"))}

InitAlbums ==
    /\ apple_xml = NoElement
    /\ pc = "init"
    /\ heap = "none"
    /\ xmldict = NoOutcome
    /\ parsed = NoOutcome
    /\ delimiter = <<>>
    /\ text = None
    /\ types_mapping = NoDescriptor
    /\ validated = NoErr
    /\ text_again = None
    /\ NoWrappers
    /\ NoDiacritics
    /\ NoFilterCall
    /\ keyed_part = NoKeyedPart
    /\ master_image_list \in {Filtered(frame) : frame \in MasterFrames}
    /\ list_of_albums \in {Filtered(frame) : frame \in AlbumFrames}
    /\ target_fields \in TargetFields
    /\ txt_config \in TxtConfigs
    /\ dir_is_writable \in BOOLEAN
    /\ txts = NoOutcome
    /\ NoRun

\* txts = the files after create_album_composition_txts(txt_config), in a directory
\* without TXT files
CreateAlbumCompositionTxts ==
    /\ pc = "init"
    /\ txts' = create_album_composition_txts(master_image_list.value, list_of_albums.value,
                                             target_fields, txt_config, dir_is_writable, <<>>)
    /\ pc' = "written"
    /\ UNCHANGED <<apple_xml, heap, xmldict, parsed, delimiter, text, types_mapping, validated>>
    /\ UNCHANGED <<text_again, wrapper_vars, diacritics_vars, filter_vars, from_xml_vars>>
    /\ UNCHANGED <<list_of_albums, target_fields, txt_config, dir_is_writable, run_vars>>

NextAlbums == CreateAlbumCompositionTxts

SpecAlbums == InitAlbums /\ [][NextAlbums]_vars

-----------------------------------------------------------------------------
(* The run of the script on a file whose dict holds the Master Image List  *)
(* under the key L and the List of Albums under the key A.                 *)

AlbumsKey == <<"A">>

\* the Master Image Lists of the file: the two images, the image 1 without an
\* original path, no image
RunMasterImageLists ==
    {Dict(<<KeyOf(<<"1">>), Dict(<<KeyOf(ImagePathField), StringOf(<<"p", "1">>),
                                   KeyOf(OriginalPathField), StringOf(<<"o", "1">>)>>),
            KeyOf(<<"2">>), Dict(<<KeyOf(ImagePathField), StringOf(<<"p", "2">>)>>)>>),
     Dict(<<KeyOf(<<"1">>), Dict(<<KeyOf(ImagePathField), StringOf(<<"p", "1">>)>>)>>),
     Dict(<<>>)}

\* the Lists of Albums of the file: an album, two albums of which one has no key
\* list, no album
RunListsOfAlbums ==
    {Array(<<album>>) : album \in {a \in AlbumsAt(1) : Len(a.children) = 8}}
        \cup {Array(<<one, two>>) :
                one \in {a \in AlbumsAt(1) : Len(a.children) = 6},
                two \in {a \in AlbumsAt(2) : Len(a.children) = 8
                                               /\ Len(a.children[8].children) = 2}}
        \cup {Array(<<>>)}

RunFiles ==
    {Dict(<<KeyOf(ListKey), images, KeyOf(AlbumsKey), albums>>) :
        images \in RunMasterImageLists, albums \in RunListsOfAlbums}

\* the image 1 is left out of the Master Image List
WithoutImageOne ==
    FieldsFilter(NoDict,
                 SomeDict(<<FilterEntry(ImagePathField, <<Some(<<"p", "1">>)>>)>>))

RunFieldsFilters ==
    {NoFieldsFilters,
     FieldsFilterDictConfig(Some(WithoutImageOne), [some |-> FALSE, val |-> NoFilter])}

RunConfigs ==
    {Config(AppleXMLKeyedPart(ListKey, ListDescriptor(<<DictDescriptor(<<>>)>>)),
            AppleXMLKeyedPart(AlbumsKey, ListDescriptor(<<DictDescriptor(<<>>)>>)),
            filters,
            TargetFieldsConfig(ImagePathField, OriginalPathField, AlbumIdField, AlbumTypeField,
                               AlbumNameField, KeyListField),
            OutputCsvConfig(csv, <<"|">>), OutputCsvConfig(csv, <<"|">>), txt)
        : filters \in RunFieldsFilters, csv \in BOOLEAN, txt \in TxtConfigs}

InitRun ==
    /\ apple_xml \in RunFiles
    /\ pc = "start"
    /\ heap = "none"
    /\ xmldict = NoOutcome
    /\ parsed = NoOutcome
    /\ delimiter = <<>>
    /\ text = None
    /\ types_mapping = NoDescriptor
    /\ validated = NoErr
    /\ text_again = None
    /\ NoWrappers
    /\ NoDiacritics
    /\ NoFilterCall
    /\ NoFromXml
    /\ list_of_albums = NoOutcome
    /\ target_fields = NoTargetFields
    /\ txt_config = NoTxtConfig
    /\ dir_is_writable \in BOOLEAN
    /\ txts = NoOutcome
    /\ config_file \in {"no path", "unreadable", "config"}
    /\ CONFIG \in RunConfigs
    /\ log = <<>>
    /\ exit_status = <<>>
    /\ csvs = <<>>

\* the start of __parse_iphoto_album_data_xml and __read_arg_config_path
ReadArgConfigPath ==
    /\ pc = "start"
    /\ log' = log \o <<StartMessage>>
                  \o (IF config_file = "no path" THEN <<NeedsConfigMessage>>
                      ELSE IF config_file = "unreadable" THEN <<FailedConfigMessage>>
                      ELSE <<>>)
    /\ pc' = after_try(config_file = "config", "master image list")
    /\ exit_status' = exit_status_of_try(config_file = "config", exit_status)
    /\ UNCHANGED <<apple_xml, heap, xmldict, parsed, delimiter, text, types_mapping, validated>>
    /\ UNCHANGED <<text_again, wrapper_vars, diacritics_vars, filter_vars, from_xml_vars>>
    /\ UNCHANGED <<album_vars, config_file, CONFIG, csvs>>

\* the part of the Master Image List: load, filter, CSV
MasterImageListPart ==
    /\ pc = "master image list"
    /\ \E done \in {load_filter_csv(
                       IphotoMasterImageList_from_xml(
                           CONFIG.INPUT.TARGET_XML_KEY_INFO.MASTER_IMAGE_LIST, apple_xml),
                       CONFIG.PROCESS.FIELDS_FILTER,
                       CONFIG.PROCESS.FIELDS_FILTER.MASTER_IMAGE_LIST,
                       CONFIG.OUTPUT.CSV.MASTER_IMAGE_LIST, TRUE, "master_image_list.csv",
                       dir_is_writable, csvs)} :
       /\ master_image_list' = [ok |-> done.ok, value |-> done.value, err |-> done.err]
       /\ csvs' = done.files
       /\ log' = log \o <<MasterImageListMessage>>
                     \o log_of_try(done.ok, FailedMasterImageListMessage)
       /\ pc' = after_try(done.ok, "list of albums")
       /\ exit_status' = exit_status_of_try(done.ok, exit_status)
    /\ UNCHANGED <<apple_xml, heap, xmldict, parsed, delimiter, text, types_mapping, validated>>
    /\ UNCHANGED <<text_again, wrapper_vars, diacritics_vars, filter_vars, keyed_part>>
    /\ UNCHANGED <<album_vars, config_file, CONFIG>>

\* the part of the List of Albums: load, filter, CSV
ListOfAlbumsPart ==
    /\ pc = "list of albums"
    /\ \E done \in {load_filter_csv(
                       IphotoListOfAlbums_from_xml(
                           CONFIG.INPUT.TARGET_XML_KEY_INFO.LIST_OF_ALBUMS, apple_xml),
                       CONFIG.PROCESS.FIELDS_FILTER,
                       CONFIG.PROCESS.FIELDS_FILTER.LIST_OF_ALBUMS,
                       CONFIG.OUTPUT.CSV.LIST_OF_ALBUMS, FALSE, "list_of_albums.csv",
                       dir_is_writable, csvs)} :
       /\ list_of_albums' = [ok |-> done.ok, value |-> done.value, err |-> done.err]
       /\ csvs' = done.files
       /\ log' = log \o <<ListOfAlbumsMessage>>
                     \o log_of_try(done.ok, FailedListOfAlbumsMessage)
       /\ pc' = after_try(done.ok, "album composition")
       /\ exit_status' = exit_status_of_try(done.ok, exit_status)
    /\ UNCHANGED <<apple_xml, heap, xmldict, parsed, delimiter, text, types_mapping, validated>>
    /\ UNCHANGED <<text_again, wrapper_vars, diacritics_vars, filter_vars, from_xml_vars>>
    /\ UNCHANGED <<target_fields, txt_config, dir_is_writable, txts, config_file, CONFIG>>

\* the part of the album composition TXT files, and the end of the run
AlbumCompositionPart ==
    /\ pc = "album composition"
    /\ \E done \in {create_album_composition_txts(
                       master_image_list.value, list_of_albums.value,
                       CONFIG.PROCESS.TARGET_FIELDS, CONFIG.OUTPUT.TXT.ALBUM_COMPOSITION,
                       dir_is_writable, <<>>)} :
       /\ txts' = done
       /\ log' = log \o <<JoiningMessage>>
                     \o (IF done.ok THEN <<DoneMessage>> ELSE <<FailedJoiningMessage>>)
       /\ pc' = after_try(done.ok, "done")
       /\ exit_status' = exit_status_of_try(done.ok, <<0>>)
    /\ UNCHANGED <<apple_xml, heap, xmldict, parsed, delimiter, text, types_mapping, validated>>
    /\ UNCHANGED <<text_again, wrapper_vars, diacritics_vars, filter_vars, from_xml_vars>>
    /\ UNCHANGED <<list_of_albums, target_fields, txt_config, dir_is_writable>>
    /\ UNCHANGED <<config_file, CONFIG, csvs>>

NextRun == ReadArgConfigPath \/ MasterImageListPart \/ ListOfAlbumsPart \/ AlbumCompositionPart

SpecRun == InitRun /\ [][NextRun]_vars

-----------------------------------------------------------------------------
(* Properties of the flattener. *)

\* C1 (as claimed): the dict with children key A, string x, key B, array [integer 1,
\* integer 2] parses to a dict of size 2, and its get_text with delimiter "|" is
\* exactly "A: x|B: 1|2": each segment is the text of the key, ": " and the rendered
\* value.
C1_EndToEndText ==
    /\ (apple_xml = EndToEndExample /\ pc \in {"parsed", "flattened"})
          => (parsed.ok /\ parsed.value.kind = "dict" /\ Len(parsed.value.items) = 2)
    /\ (apple_xml = EndToEndExample /\ pc = "flattened" /\ delimiter = <<"|">>)
          => text = Some(<<"A", ":", " ", "x", "|", "B", ":", " ", "1", "|", "2">>)

RECURSIVE flatten_at_every_depth(_, _, _)
\* the rendering in which the delimiter given separates the segments at every depth,
\* the keys and the leaves rendered as get_text renders them
flatten_at_every_depth(p, d, where) ==
    IF p.kind = "dict"
    THEN Some(str_join(d, [i \in 1..Len(p.items) |->
                 key_str(p.items[i].key, where \o <<i>>) \o <<":", " ">>
                     \o Format(flatten_at_every_depth(p.items[i].value, d, where \o <<i>>))]))
    ELSE IF p.kind = "list"
    THEN Some(str_join(d, [i \in 1..Len(p.items) |->
                 Format(flatten_at_every_depth(p.items[i], d, where \o <<i>>))]))
    ELSE wrapper_get_text(p)

\* C2 (as claimed): whatever the delimiter, get_text separates the segments of every
\* dict and the elements of every list by it, at every nesting depth, in the order
\* of the entries and of the elements.
C2_DelimiterAtEveryDepth ==
    pc = "flattened" => text = flatten_at_every_depth(parsed.value, delimiter, <<heap>>)

-----------------------------------------------------------------------------
(* Properties of AppleXMLDict.__init__ *)

IsKey(cs, i) == i \in 1..Len(cs) /\ get_tag(cs[i]) = "key"

IsValue(cs, i) == i \in 1..Len(cs) /\ get_tag(cs[i]) # "key"

\* two key children carry the same text
SameTextKeys(cs) ==
    \E i, j \in 1..Len(cs) :
        i < j /\ IsKey(cs, i) /\ IsKey(cs, j) /\ cs[i].text.some /\ cs[i].text = cs[j].text

\* the key child j carries the text of an earlier key child that is immediately
\* followed by a child that is no key
RepeatsRecordedKey(cs, j) ==
    /\ IsKey(cs, j)
    /\ \E i \in 1..(j - 1) : IsKey(cs, i) /\ IsValue(cs, i + 1) /\ cs[i].text = cs[j].text

FirstRepeat(cs) ==
    CHOOSE j \in 1..Len(cs) :
        RepeatsRecordedKey(cs, j) /\ \A k \in 1..(j - 1) : ~RepeatsRecordedKey(cs, k)

\* the key child i is immediately followed by a key child, or is the last child
Dangling(cs, i) == IsKey(cs, i) /\ (i = Len(cs) \/ IsKey(cs, i + 1))

RECURSIVE PairsFrom(_, _)
\* the entries of the scan key, value, key, value: each child that is no key and
\* comes right after a key child, under the text of that key child
PairsFrom(cs, i) ==
    IF i >= Len(cs) THEN <<>>
    ELSE IF IsKey(cs, i) /\ IsValue(cs, i + 1)
         THEN <<[key |-> cs[i].text, value |-> cs[i + 1]]>> \o PairsFrom(cs, i + 1)
         ELSE PairsFrom(cs, i + 1)

DictConstructed == pc = "constructed" /\ get_tag(apple_xml) = "dict"

\* C3 (as claimed): whenever two key children of a dict element carry the same text,
\* whatever lies between or after them, the construction fails with a ValueError
\* whose message names that text.
C3_AnyDuplicateKeyFails ==
    (DictConstructed /\ SameTextKeys(apple_xml.children))
        => /\ ~xmldict.ok
           /\ xmldict.err.type = "ValueError"
           /\ \E j \in 1..Len(apple_xml.children) :
                 /\ IsKey(apple_xml.children, j)
                 /\ Contains(xmldict.err.msg, Format(apple_xml.children[j].text))

\* C3 (amended): whenever a key child of a dict element carries the text of an
\* earlier key child that is immediately followed by a child that is no key (so that
\* an entry was recorded for it), the construction fails with a ValueError whose
\* message names the text of the first such key child.
C3_RecordedDuplicateKeyFails ==
    (DictConstructed /\ \E j \in 1..Len(apple_xml.children) : RepeatsRecordedKey(apple_xml.children, j))
        => /\ ~xmldict.ok
           /\ xmldict.err.type = "ValueError"
           /\ xmldict.err.msg =
                 <<"Apple original xml tag \"dict\" is broken.: A key \"">>
                     \o Format(apple_xml.children[FirstRepeat(apple_xml.children)].text)
                     \o <<"\" is duplicated.">>

\* a dict of four children whose third child repeats the recorded first key, with a
\* child between and a child after them, was constructed and failed
C3_Witness ==
    /\ DictConstructed
    /\ Len(apple_xml.children) = 4
    /\ RepeatsRecordedKey(apple_xml.children, 3)
    /\ ~xmldict.ok

\* C4 (as claimed): a key child that is immediately followed by a key child, or that
\* is the last child, raises no error and records no entry: if the scan of the
\* children before it succeeds, the scan up to it succeeds with the same entries.
C4_DanglingKeyNeverRaises ==
    DictConstructed =>
        \A n \in 1..Len(apple_xml.children) :
            Dangling(apple_xml.children, n) =>
                LET before == AppleXMLDict(Dict(SubSeq(apple_xml.children, 1, n - 1)))
                    upto == IF n = Len(apple_xml.children) THEN xmldict
                            ELSE AppleXMLDict(Dict(SubSeq(apple_xml.children, 1, n)))
                IN  before.ok => (upto.ok /\ upto.value = before.value)

\* C4 (amended): the children are scanned as key, value, key, value.  The only error
\* of the scan is that of a key child whose text is already recorded with a value; a
\* key child that is immediately followed by a key child, or that is the last child,
\* raises no other error and records no entry, and each child that is no key and
\* comes right after a key child is recorded under that most recent key only.
C4_DanglingKeyDropped ==
    DictConstructed =>
        /\ ~xmldict.ok => \E j \in 1..Len(apple_xml.children) : RepeatsRecordedKey(apple_xml.children, j)
        /\ xmldict.ok => xmldict.value = PairsFrom(apple_xml.children, 1)

\* a dict with a key child followed by a key child and then by a value was
\* constructed: the value is recorded under the second key alone
C4_Witness ==
    /\ DictConstructed
    /\ xmldict.ok
    /\ Len(apple_xml.children) >= 3
    /\ Dangling(apple_xml.children, 1)
    /\ IsValue(apple_xml.children, 3)
    /\ apple_xml.children[1].text # apple_xml.children[2].text
    /\ Len(xmldict.value) = 1
    /\ xmldict.value[1].key = apple_xml.children[2].text

-----------------------------------------------------------------------------
(* Properties of parse_into_primitive_types *)

SupportedTags == {"dict", "array", "integer", "real", "string", "true", "false"}

\* the class of the value a supported tag is parsed into
KindOfTag(tag) ==
    IF tag = "array" THEN "list" ELSE IF tag \in {"true", "false"} THEN "bool" ELSE tag

\* C5: whenever the parse of an array element succeeds, the parsed list has as many
\* elements as the element has children, and its i-th element is the parse of the
\* i-th child (a value of the class the tag of that child stands for).
C5_ArrayLengthAndOrder ==
    (pc = "parsed" /\ get_tag(apple_xml) = "array" /\ parsed.ok)
        => /\ parsed.value.kind = "list"
           /\ Len(parsed.value.items) = Len(apple_xml.children)
           /\ \A i \in 1..Len(apple_xml.children) :
                 /\ parse_into_primitive_types(apple_xml.children[i]).ok
                 /\ parsed.value.items[i] = parse_into_primitive_types(apple_xml.children[i]).value
                 /\ parsed.value.items[i].kind = KindOfTag(get_tag(apple_xml.children[i]))

\* an array of at least two children, a container among them and the children not
\* all alike, was parsed
C5_Witness ==
    /\ pc = "parsed"
    /\ get_tag(apple_xml) = "array"
    /\ parsed.ok
    /\ Len(apple_xml.children) >= 2
    /\ apple_xml.children[1] # apple_xml.children[2]
    /\ \E i \in 1..Len(apple_xml.children) : get_tag(apple_xml.children[i]) \in {"dict", "array"}

\* the first child of an array that carries an unsupported tag, when all the
\* children before it are leaves
FirstUnsupportedChild(cs) ==
    CHOOSE i \in 1..Len(cs) :
        /\ get_tag(cs[i]) \notin SupportedTags
        /\ \A k \in 1..(i - 1) : get_tag(cs[k]) \in SupportedTags

\* C6: the parse dispatches on the tag alone: a dict gives a dict and an array a list
\* (when their content parses), integer, real and string give the wrapper of that
\* tag holding the text of the element, true and false give a bool holding the tag;
\* an element of any other tag, a key met where a value is parsed included, fails
\* with a ValueError that names the tag.
C6_DispatchOnTag ==
    pc = "parsed" =>
        LET tag == get_tag(apple_xml) IN
        /\ (tag \in {"dict", "array"} /\ parsed.ok) => parsed.value.kind = KindOfTag(tag)
        /\ tag \in {"integer", "real", "string"}
              => (parsed.ok /\ parsed.value = Value(tag, apple_xml.text, <<>>))
        /\ tag \in {"true", "false"}
              => (parsed.ok /\ parsed.value = Value("bool", Some(Chars(tag)), <<>>))
        /\ tag \notin SupportedTags
              => /\ ~parsed.ok
                 /\ parsed.err.type = "ValueError"
                 /\ parsed.err.msg = <<"Apple XML tag \"", tag, "\" is not supported.">>
        /\ (/\ tag = "array"
            /\ \A i \in 1..Len(apple_xml.children) :
                  get_tag(apple_xml.children[i]) \notin {"dict", "array"}
            /\ \E i \in 1..Len(apple_xml.children) :
                  get_tag(apple_xml.children[i]) \notin SupportedTags)
              => /\ ~parsed.ok
                 /\ parsed.err.type = "ValueError"
                 /\ parsed.err.msg =
                       <<"Apple XML tag \"",
                         get_tag(apple_xml.children[FirstUnsupportedChild(apple_xml.children)]),
                         "\" is not supported.">>

\* an array holding a key element where a value is parsed was parsed, and failed
C6_Witness ==
    /\ pc = "parsed"
    /\ get_tag(apple_xml) = "array"
    /\ \E i \in 1..Len(apple_xml.children) : get_tag(apple_xml.children[i]) = "key"
    /\ \A i \in 1..Len(apple_xml.children) : get_tag(apple_xml.children[i]) \in SupportedTags \cup {"key"}
    /\ ~parsed.ok

RECURSIVE HasUnsupportedDescendant(_)
\* an element below xml carries an unsupported tag
HasUnsupportedDescendant(xml) ==
    \E i \in 1..Len(xml.children) :
        \/ get_tag(xml.children[i]) \notin SupportedTags \cup {"key"}
        \/ HasUnsupportedDescendant(xml.children[i])

\* C7 (as claimed): if any element below the element parsed carries an unsupported
\* tag, whatever its place among its siblings, the parse raises.
C7_AnyUnsupportedDescendantFails ==
    (pc = "parsed" /\ HasUnsupportedDescendant(apple_xml)) => ~parsed.ok

RECURSIVE VisitsUnsupported(_), VisitsDuplicate(_)
\* the parse of xml comes to an element of an unsupported tag: xml itself, a child
\* of an array it comes to, or a child of a dict it comes to that is no key and
\* comes right after a key child
VisitsUnsupported(xml) ==
    \/ get_tag(xml) \notin SupportedTags
    \/ /\ get_tag(xml) = "array"
       /\ \E i \in 1..Len(xml.children) : VisitsUnsupported(xml.children[i])
    \/ /\ get_tag(xml) = "dict"
       /\ \E i \in 2..Len(xml.children) :
             /\ IsKey(xml.children, i - 1)
             /\ IsValue(xml.children, i)
             /\ VisitsUnsupported(xml.children[i])

\* the parse of xml comes to a dict in which a key child repeats a recorded key
VisitsDuplicate(xml) ==
    \/ /\ get_tag(xml) = "dict"
       /\ \E j \in 1..Len(xml.children) : RepeatsRecordedKey(xml.children, j)
    \/ /\ get_tag(xml) = "array"
       /\ \E i \in 1..Len(xml.children) : VisitsDuplicate(xml.children[i])
    \/ /\ get_tag(xml) = "dict"
       /\ \E i \in 2..Len(xml.children) :
             /\ IsKey(xml.children, i - 1)
             /\ IsValue(xml.children, i)
             /\ VisitsDuplicate(xml.children[i])

\* C7 (amended): if an element the parse comes to carries an unsupported tag (the
\* element parsed itself, a child of an array, or a child of a dict that is no key
\* and comes right after a key child), the parse raises and returns no tree.  An
\* element of an unsupported tag that the dict scan drops (a child that follows no
\* key child), or that lies below a leaf element, does not make the parse fail: the
\* parse raises only for an unsupported tag or a repeated key it comes to.
C7_VisitedUnsupportedFails ==
    pc = "parsed" =>
        /\ VisitsUnsupported(apple_xml) => (~parsed.ok /\ parsed.err.type = "ValueError")
        /\ ~parsed.ok => (VisitsUnsupported(apple_xml) \/ VisitsDuplicate(apple_xml))

\* an element with an unsupported tag at least two levels below the root, in a
\* container of at least two children, made the parse of the root fail
C7_Witness ==
    /\ pc = "parsed"
    /\ ~parsed.ok
    /\ get_tag(apple_xml) \in {"dict", "array"}
    /\ \A i \in 1..Len(apple_xml.children) : get_tag(apple_xml.children[i]) \in SupportedTags \cup {"key"}
    /\ VisitsUnsupported(apple_xml)
    /\ ~VisitsDuplicate(apple_xml)
    /\ Len(apple_xml.children) >= 2

-----------------------------------------------------------------------------
(* Properties of validate *)

\* the name of a parsed key: the text of its element, empty when it has none
KeyName(key) == IF key.some THEN key.val ELSE <<>>

\* the values a parsed dict holds under the key name, at most one
ValuesUnder(p, name) ==
    {p.items[i].value : i \in {k \in 1..Len(p.items) : KeyName(p.items[k].key) = name}}

\* C8 (as claimed): validate of a dict against a mapping descriptor succeeds exactly
\* when, for every key name in both the descriptor and the dict, the value of the
\* dict validates against the sub-descriptor of that key; a key in the data alone or
\* in the descriptor alone never makes it fail; a value that is no dict fails with a
\* TypeError.
C8_MappingDescriptor ==
    (pc = "validated" /\ types_mapping.kind = "dict") =>
        IF parsed.value.kind # "dict"
        THEN validated.type = "TypeError"
        ELSE (validated = NoErr)
                <=> \A i \in 1..Len(types_mapping.items) :
                       \A v \in ValuesUnder(parsed.value, types_mapping.items[i].key) :
                           ParsedPrimitiveTypes_validate(v, types_mapping.items[i].value) = NoErr

\* the class a leaf descriptor stands for
KindOfDescriptor(tm) ==
    IF tm.text \in Bool_tags THEN "bool"
    ELSE IF tm.text = Integer_tag THEN "integer"
    ELSE IF tm.text = Real_tag THEN "real"
    ELSE "string"

IsLeafDescriptor(tm) ==
    tm.kind = "str" /\ tm.text \in {Integer_tag, Real_tag, String_tag} \cup Bool_tags

NameAndExtra == Dict(<<KeyOf(Name), StrX, KeyOf(Extra), Int1>>)

NameIs(tag) == DictDescriptor(<<[key |-> Name, value |-> StrDescriptor(tag)]>>)

\* C9: validate of a value against a leaf descriptor succeeds if and only if the
\* value is of the class the descriptor stands for, and fails with a TypeError
\* otherwise; {Name: "string"} succeeds and {Name: "integer"} fails with a TypeError
\* against the dict holding Name -> string and Extra -> integer.
C9_LeafDescriptor ==
    pc = "validated" =>
        /\ IsLeafDescriptor(types_mapping)
              => /\ (validated = NoErr) <=> (parsed.value.kind = KindOfDescriptor(types_mapping))
                 /\ (validated # NoErr) => validated.type = "TypeError"
        /\ (apple_xml = NameAndExtra /\ types_mapping = NameIs(String_tag)) => validated = NoErr
        /\ (apple_xml = NameAndExtra /\ types_mapping = NameIs(Integer_tag))
              => validated.type = "TypeError"

\* {Name: "integer"} was validated against the dict holding Name -> string and
\* Extra -> integer, and failed
C9_Witness ==
    /\ pc = "validated"
    /\ apple_xml = NameAndExtra
    /\ types_mapping = NameIs(Integer_tag)
    /\ validated.type = "TypeError"

\* the values of a parsed dict, or the elements of a parsed list, as a set
ValuesIn(p) ==
    IF p.kind = "dict" THEN {p.items[i].value : i \in 1..Len(p.items)}
    ELSE {p.items[i] : i \in 1..Len(p.items)}

\* C10: validate of a dict or a list against a sequence descriptor of one element d
\* succeeds if and only if every value of the dict, or every element of the list,
\* validates against d; against a leaf value it fails with a TypeError; a sequence
\* descriptor whose length is not 1 fails with a ValueError whatever the data is.
C10_SequenceDescriptor ==
    (pc = "validated" /\ types_mapping.kind = "list") =>
        IF Len(types_mapping.items) # 1
        THEN validated.type = "ValueError"
        ELSE IF parsed.value.kind \in {"dict", "list"}
        THEN (validated = NoErr)
                <=> \A v \in ValuesIn(parsed.value) :
                       ParsedPrimitiveTypes_validate(v, types_mapping.items[1]) = NoErr
        ELSE validated.type = "TypeError"

\* a sequence descriptor of one element was validated against a container of two
\* values of which the first validates against the element and the second does not
C10_Witness ==
    /\ pc = "validated"
    /\ types_mapping.kind = "list"
    /\ Len(types_mapping.items) = 1
    /\ parsed.value.kind \in {"dict", "list"}
    /\ Len(parsed.value.items) = 2
    /\ validated # NoErr
    /\ LET first == IF parsed.value.kind = "dict" THEN parsed.value.items[1].value
                    ELSE parsed.value.items[1]
       IN  ParsedPrimitiveTypes_validate(first, types_mapping.items[1]) = NoErr

\* the descriptor is neither a mapping, nor a sequence of one element, nor a known
\* tag name
IsMalformed(tm) ==
    \/ tm.kind = "str" /\ ~IsLeafDescriptor(tm)
    \/ tm.kind = "list" /\ Len(tm.items) # 1
    \/ tm.kind \notin {"dict", "list", "str"}

RECURSIVE Reached(_, _)
\* the pairs of a value and a descriptor that validate comes to when nothing fails:
\* the pair given, under a mapping the values of the keys in both, under a sequence
\* of one element every value of the container
Reached(p, tm) ==
    {<<p, tm>>} \cup
        IF tm.kind = "dict" /\ p.kind = "dict"
        THEN UNION {UNION {Reached(v, tm.items[i].value) : v \in ValuesUnder(p, tm.items[i].key)} :
                      i \in 1..Len(tm.items)}
        ELSE IF tm.kind = "list" /\ Len(tm.items) = 1 /\ p.kind \in {"dict", "list"}
        THEN UNION {Reached(v, tm.items[1]) : v \in ValuesIn(p)}
        ELSE {}

RECURSIVE AllErrors(_, _), ErrorsOfEntries(_, _, _), ErrorsOfValues(_, _, _)
\* every error of the walk of a value and a descriptor that goes on after each
\* failure, in the order of the walk: the entries of a mapping in their order, the
\* values of the container under a sequence in their order
ErrorsOfEntries(p, entries, i) ==
    IF i > Len(entries) THEN <<>>
    ELSE LET xmlkey == AppleXMLKey_fromstr(entries[i].key) IN
         (IF ~xmlkey.ok THEN <<xmlkey.err>>
          ELSE IF ~key_in_dict(xmlkey.value, p.items) THEN <<>>
          ELSE AllErrors(dict_getitem(p.items, xmlkey.value), entries[i].value))
             \o ErrorsOfEntries(p, entries, i + 1)

ErrorsOfValues(values, tm, i) ==
    IF i > Len(values) THEN <<>>
    ELSE AllErrors(values[i], tm) \o ErrorsOfValues(values, tm, i + 1)

AllErrors(p, tm) ==
    IF tm.kind = "dict" /\ p.kind = "dict" THEN ErrorsOfEntries(p, tm.items, 1)
    ELSE IF tm.kind = "list" /\ Len(tm.items) = 1 /\ p.kind \in {"dict", "list"}
    THEN ErrorsOfValues(IF p.kind = "dict" THEN [i \in 1..Len(p.items) |-> p.items[i].value]
                        ELSE p.items, tm.items[1], 1)
    ELSE IF tm.kind = "dict" THEN <<not_a_error(p, "a", "dict")>>
    ELSE IF tm.kind = "list" /\ Len(tm.items) # 1 THEN <<list_length_error(Len(tm.items))>>
    ELSE IF tm.kind = "list" THEN <<not_list_nor_dict_error(p)>>
    ELSE IF IsLeafDescriptor(tm)
    THEN IF p.kind = KindOfDescriptor(tm) THEN <<>>
         ELSE <<not_a_error(p, IF tm.text = Integer_tag THEN "an" ELSE "a",
                            KindOfDescriptor(tm))>>
    ELSE IF tm.kind = "str" THEN <<unsupported_value_error(tm.text)>>
    ELSE <<unsupported_type_error>>

\* C12: validate leaves the parsed tree as the parse made it; it returns nothing when
\* the walk meets no failure, and otherwise raises the error of the first failure in
\* the order of the walk and of no later one.
C12_FirstFailureOnly ==
    pc = "validated" =>
        /\ parsed.ok /\ parsed.value = parse_into_primitive_types(apple_xml).value
        /\ LET errors == AllErrors(parsed.value, types_mapping) IN
           validated = IF errors = <<>> THEN NoErr ELSE errors[1]

\* a walk with at least two failures whose errors differ raised the first of them
C12_Witness ==
    /\ pc = "validated"
    /\ LET errors == AllErrors(parsed.value, types_mapping) IN
       /\ Len(errors) >= 2
       /\ errors[1] # errors[Len(errors)]
       /\ validated = errors[1]

\* the error is one of the messages that tell the class of the value found and the
\* kind expected of it
NamesKinds(err, p, tm) ==
    \E vd \in Reached(p, tm) :
        \/ err = not_list_nor_dict_error(vd[1])
        \/ \E kind \in {"dict", "integer", "real", "string", "bool"} :
              err \in {not_a_error(vd[1], "a", kind), not_a_error(vd[1], "an", kind)}

\* the message holds the name of a key of the mapping descriptor
NamesKey(err, tm) ==
    \E i \in 1..Len(tm.items) : Contains(err.msg, tm.items[i].key)

\* C13 (as claimed): every TypeError or ValueError that validate raises tells the path
\* of the descriptor to the failing entry, the class of the value found there and the
\* kind expected of it.  Under a mapping descriptor over a dict every failure lies
\* below an entry of the mapping, so that the message holds the name of one of its
\* keys.
C13_ErrorNamesPathAndKinds ==
    (/\ pc = "validated"
     /\ validated.type \in {"TypeError", "ValueError"}
     /\ types_mapping.kind = "dict"
     /\ parsed.value.kind = "dict")
        => /\ NamesKey(validated, types_mapping)
           /\ NamesKinds(validated, parsed.value, types_mapping)

-----------------------------------------------------------------------------
(* Properties of the wrappers *)

\* C14 (as claimed): for every key text t, AppleXMLKey.fromstr(t) builds a key, and
\* that key is equal to a key made of a key element exactly when the text of the
\* element is t, with the same hash when it is.
C14_FromStrEqualsParsedKey ==
    pc = "fromstr" =>
        /\ other_wrapper.ok
        /\ compared.eq <=> (apple_xml.text = other_xml.text)
        /\ (apple_xml.text = other_xml.text) => compared.hash_eq

\* C15: get_text of an AppleXMLString is the normalizer applied to the text of the
\* element (None when it has none); two AppleXMLString are equal exactly when the
\* texts of their elements are equal, whatever get_text returns for them, and equal
\* texts give equal hashes.
C15_StringEqualityOnRawText ==
    /\ (pc = "read" /\ cls = "AppleXMLString")
          => text = IF apple_xml.text.some
                    THEN Some(replace_combining_chars_to_precomposed(apple_xml.text.val))
                    ELSE None
    /\ (pc = "compared" /\ cls = "AppleXMLString")
          => /\ compared.eq <=> (apple_xml.text = other_xml.text)
             /\ (apple_xml.text = other_xml.text) => compared.hash_eq

\* the string of e and U+0301 was compared with the string of U+00E9: get_text
\* returns the same for both, and they are not equal
C15_Witness ==
    /\ pc = "compared"
    /\ cls = "AppleXMLString"
    /\ apple_xml = StrAccent
    /\ other_xml = StrPrecomposed
    /\ AppleXMLString_get_text(wrapper.value) = AppleXMLString_get_text(other_wrapper.value)
    /\ ~compared.eq

\* the element carries the tag the class requires
TagMatches(c, xml) ==
    IF c = "AppleXMLBool" THEN get_tag(xml) \in {"true", "false"} ELSE get_tag(xml) = TAG(c)

\* C16 (as claimed): constructing a wrapper fails with a TypeError when the argument
\* is no AppleXML, with a ValueError when the tag of the element is not the one the
\* class requires, and succeeds for every AppleXML carrying the required tag.
C16_WrapperConstruction ==
    pc = "wrapped" =>
        /\ arg_type # "AppleXML" => (~wrapper.ok /\ wrapper.err.type = "TypeError")
        /\ (arg_type = "AppleXML" /\ ~TagMatches(cls, apple_xml))
              => (~wrapper.ok /\ wrapper.err.type = "ValueError")
        /\ (arg_type = "AppleXML" /\ TagMatches(cls, apple_xml)) => wrapper.ok

\* C16 (amended): constructing a wrapper fails with a TypeError when the argument is
\* no AppleXML, and with a ValueError when the tag of the element is not the one the
\* class requires; for an AppleXML carrying the required tag it succeeds, except
\* that AppleXMLDict fails with a ValueError when a key child repeats a key already
\* recorded with a value.
C16_WrapperConstructionButDuplicates ==
    pc = "wrapped" =>
        /\ arg_type # "AppleXML" => (~wrapper.ok /\ wrapper.err.type = "TypeError")
        /\ (arg_type = "AppleXML" /\ ~TagMatches(cls, apple_xml))
              => (~wrapper.ok /\ wrapper.err.type = "ValueError")
        /\ (arg_type = "AppleXML" /\ TagMatches(cls, apple_xml))
              => IF /\ cls = "AppleXMLDict"
                    /\ \E j \in 1..Len(apple_xml.children) : RepeatsRecordedKey(apple_xml.children, j)
                 THEN ~wrapper.ok /\ wrapper.err.type = "ValueError"
                 ELSE wrapper.ok

\* an ElementTree element carrying the required tag was given to a constructor,
\* which failed with a TypeError
C16_Witness ==
    /\ pc = "wrapped"
    /\ arg_type = "<class 'xml.etree.ElementTree.Element'>"
    /\ TagMatches(cls, apple_xml)
    /\ cls = "AppleXMLBool"
    /\ ~wrapper.ok
    /\ wrapper.err.type = "TypeError"

\* C17: get_text of an AppleXMLInteger or an AppleXMLReal is the text of the element
\* as it is; get_text of an AppleXMLBool is the tag, true or false, whatever text the
\* element holds; get_text of an AppleXMLInteger, AppleXMLReal or AppleXMLString
\* whose element has no text is None, and get_text never returns the empty text for
\* an element without text.
C17_WrapperGetText ==
    pc = "read" =>
        /\ cls \in {"AppleXMLInteger", "AppleXMLReal"} => text = apple_xml.text
        /\ cls = "AppleXMLBool" => text = Some(Chars(get_tag(apple_xml)))
        /\ (cls \in {"AppleXMLInteger", "AppleXMLReal", "AppleXMLString"} /\ ~apple_xml.text.some)
              => (text = None /\ text # Some(<<>>))

\* get_text of the AppleXMLBool of <true>y</true> was read: it is the tag
C17_Witness ==
    /\ pc = "read"
    /\ cls = "AppleXMLBool"
    /\ apple_xml = TrueWithText
    /\ text = Some(<<"t", "r", "u", "e">>)

-----------------------------------------------------------------------------
(* Properties of the normalizer *)

Acute == "U+0301"

\* the characters of the text from the place i on
From(txt, i) == SubSeq(txt, i, Len(txt))

\* C18: a letter that has a precomposed form with the acute accent, immediately
\* followed by the combining acute accent (and by no further mark), is replaced
\* with it by that one precomposed character, whatever comes before and after the
\* pair; e followed by U+0301 alone gives U+00E9 alone.  A combining mark at the
\* start of the text, where nothing is in the output yet, is put out as it is (a
\* mark right after it is then composed with it, so the case is that of no mark
\* following).
C18_AcuteComposedAndLeadingMarkKept ==
    pc = "normalized" =>
        /\ plain_text = <<"e", Acute>> => precomposed = <<"U+00E9">>
        /\ \A i \in 1..(Len(plain_text) - 1) :
              (/\ combining(plain_text[i]) = 0
               /\ composite(plain_text[i], Acute) # <<>>
               /\ plain_text[i + 1] = Acute
               /\ (i + 2 <= Len(plain_text) => combining(plain_text[i + 2]) = 0))
                  => precomposed =
                        replace_combining_chars_to_precomposed(SubSeq(plain_text, 1, i - 1))
                            \o composite(plain_text[i], Acute)
                            \o replace_combining_chars_to_precomposed(From(plain_text, i + 2))
        /\ (/\ plain_text # <<>>
            /\ combining(plain_text[1]) # 0
            /\ (Len(plain_text) >= 2 => combining(plain_text[2]) = 0))
              => precomposed = <<plain_text[1]>>
                                  \o replace_combining_chars_to_precomposed(Tail(plain_text))

\* the text of U+0301, e, U+0301 was normalized: the mark at the start is kept and
\* the pair composed
C18_Witness ==
    /\ pc = "normalized"
    /\ plain_text = <<Acute, "e", Acute>>
    /\ precomposed = <<Acute, "U+00E9">>

\* the text is a character that is no mark followed by at least two marks
IsStacked(txt) ==
    /\ Len(txt) >= 3
    /\ combining(txt[1]) = 0
    /\ \A i \in 2..Len(txt) : combining(txt[i]) # 0

\* C19 (as claimed): for a base character followed by two or more stacked combining
\* marks, the first of which composes with the base, only one composition is applied
\* to the base, so that the result differs from the NFC normalization of the text.
C19_StackedMarksDifferFromNFC ==
    (/\ pc = "normalized"
     /\ IsStacked(plain_text)
     /\ composite(plain_text[1], plain_text[2]) # <<>>)
        => precomposed # normalize_NFC(plain_text)

\* C19 (amended): each combining mark is composed, by the NFC normalization of the
\* two together, with the last entry of the output, which holds the base and the
\* marks before it as composed so far; for a base character followed by two or more
\* stacked combining marks every mark in turn is composed with that entry, and the
\* result is the NFC normalization of the text.
C19_StackedMarksEqualNFC ==
    (pc = "normalized" /\ IsStacked(plain_text))
        => /\ precomposed = normalize_NFC(plain_text)
           /\ precomposed =
                 normalize_NFC(
                     replace_combining_chars_to_precomposed(SubSeq(plain_text, 1, Len(plain_text) - 1))
                         \o <<plain_text[Len(plain_text)]>>)

\* e followed by the circumflex and the acute accent was normalized: both marks are
\* composed with the e, into the one character U+1EBF
C19_Witness ==
    /\ pc = "normalized"
    /\ plain_text = <<"e", "U+0302", Acute>>
    /\ precomposed = <<"U+1EBF">>

-----------------------------------------------------------------------------
(* Properties of parsing and flattening again *)

\* C20 (as claimed): with the element and the delimiter the same, get_text gives the
\* same text again, both when it is called again on the same parsed tree and when
\* the element is parsed again and the new tree is flattened.
C20_SameTextAgain ==
    pc \in {"flattened again", "parsed again"} => text_again = text

-----------------------------------------------------------------------------
(* Properties of the iPhoto tools. *)

\* the cell x has a text equal to one of the listed values, a listed None standing
\* for a missing value
IsListed(x, values) ==
    \E j \in 1..Len(values) :
        IF values[j] = None THEN is_missing(x)
        ELSE ~is_missing(x) /\ wrapper_get_text(x) = values[j]

\* the row of df at r is a row of the dataframe returned
IsReturned(r) ==
    \E k \in 1..Len(filtered.value.index) : filtered.value.index[k] = df.index[r]

\* C21 (as claimed): apply_on_dataframe with EXCLUDE = {f: [v1, ..., vn]}, n >= 1,
\* and no INCLUDE returns no row whose field f has a text equal to one of the listed
\* values (None standing for a missing value) and keeps every row whose field f
\* matches none of them.
C21_ExcludeDropsEveryListedValue ==
    (/\ pc = "filtered"
     /\ fields_filter.INCLUDE = NoDict
     /\ fields_filter.EXCLUDE.some
     /\ Len(fields_filter.EXCLUDE.items) = 1
     /\ Len(fields_filter.EXCLUDE.items[1].values) >= 1
     /\ filtered.ok)
        => LET entry == fields_filter.EXCLUDE.items[1] IN
           \A r \in 1..Len(df.rows) :
               IsReturned(r)
                   <=> ~IsListed(column(df, AppleXMLKey_fromstr(entry.key).value)[r],
                                 entry.values)

\* the value from_xml parses: that under the target key of the dict found
TargetValue == parse_into_primitive_types(AppleXMLKeyedPart_get_value(keyed_part, apple_xml).value)

\* from_xml comes to its shape check: the target is found, parsed and valid
ComesToShapeCheck ==
    /\ AppleXMLKeyedPart_get_value(keyed_part, apple_xml).ok
    /\ TargetValue.ok
    /\ ParsedPrimitiveTypes_validate(TargetValue.value, keyed_part.TARGET_VALUE_TYPES) = NoErr

IsDictOfDicts(p) ==
    /\ p.kind = "dict"
    /\ \A i \in 1..Len(p.items) : p.items[i].value.kind = "dict"

\* C22 (as claimed): when from_xml comes to its shape check, it raises ValueError if
\* the parsed target value is not a dict or any of its values is not a dict, and
\* raises nothing if it is a dict all of whose values are dicts, the empty dict
\* included.
C22_ShapeCheckOfEveryValue ==
    (pc = "loaded" /\ ComesToShapeCheck)
        => IF IsDictOfDicts(TargetValue.value)
           THEN master_image_list.ok
           ELSE ~master_image_list.ok /\ master_image_list.err.type = "ValueError"

RECURSIVE lines_of(_)
\* the lines of the content of a file: the runs of it that the line feeds separate
lines_of(content) ==
    IF content = <<>> THEN <<>>
    ELSE IF \E i \in 1..Len(content) : content[i] = "\n"
    THEN LET i == CHOOSE i \in 1..Len(content) :
                      content[i] = "\n" /\ \A j \in 1..(i - 1) : content[j] # "\n" IN
         <<SubSeq(content, 1, i - 1)>> \o lines_of(SubSeq(content, i + 1, Len(content)))
    ELSE <<content>>

\* the entries of the master image key list of the album at r
KeyListOf(r) ==
    column(list_of_albums.value, Some(target_fields.LIST_OF_ALBUMS.MASTER_IMAGE_KEY_LIST))[r].items

\* the key is a key of the Master Image List
InMasterImageList(key_text) ==
    \E m \in 1..Len(master_image_list.value.index) : master_image_list.value.index[m] = key_text

\* the texts of the fields of the image of that key
TextsOfImage(key_text) ==
    LET frame == master_image_list.value IN
    {frame.rows[m][c].text.val :
        m \in {m \in 1..Len(frame.index) : frame.index[m] = key_text},
        c \in 1..Len(frame.columns)}

-----------------------------------------------------------------------------
(* Properties of the run of the script. *)

IsPrefix(s, t) == Len(s) <= Len(t) /\ \A i \in 1..Len(s) : s[i] = t[i]

\* the messages that tell the start of a part, as logged
PartsStarted ==
    SelectSeq(log, LAMBDA m : m \in {MasterImageListMessage, ListOfAlbumsMessage, JoiningMessage})

IsLogged(m) == \E i \in 1..Len(log) : log[i] = m

\* C23: the parts of a run start in the order Master Image List, List of Albums,
\* album composition TXT files; an exception in a part ends the run with exit status
\* 1 before a later part starts: the message of the failure is the last one logged
\* and the later parts have no outcome; the 'done' message is logged only after all
\* three parts succeeded, and is the last one.
C23_PartsInOrderAndExitOnFailure ==
    /\ IsPrefix(PartsStarted, <<MasterImageListMessage, ListOfAlbumsMessage, JoiningMessage>>)
    /\ master_image_list.err # NoErr
          => /\ exit_status = <<1>>
             /\ log[Len(log)] = FailedMasterImageListMessage
             /\ ~IsLogged(ListOfAlbumsMessage) /\ ~IsLogged(JoiningMessage)
             /\ list_of_albums = NoOutcome /\ txts = NoOutcome
    /\ list_of_albums.err # NoErr
          => /\ exit_status = <<1>>
             /\ log[Len(log)] = FailedListOfAlbumsMessage
             /\ ~IsLogged(JoiningMessage)
             /\ txts = NoOutcome
    /\ txts.err # NoErr
          => /\ exit_status = <<1>>
             /\ log[Len(log)] = FailedJoiningMessage
    /\ exit_status = <<1>> => (pc = "exited" /\ ~IsLogged(DoneMessage))
    /\ IsLogged(DoneMessage)
          => /\ master_image_list.ok /\ list_of_albums.ok /\ txts.ok
             /\ log[Len(log)] = DoneMessage
             /\ PartsStarted = <<MasterImageListMessage, ListOfAlbumsMessage, JoiningMessage>>

\* the Master Image List is loaded and its CSV written, and the part of the List of
\* Albums raises: the run has ended
C23_Witness ==
    /\ pc = "exited"
    /\ master_image_list.ok
    /\ csvs # <<>>
    /\ list_of_albums.err # NoErr

-----------------------------------------------------------------------------
(* More properties of AppleXMLDict.__init__, of validate and of get_text. *)

\* the child n is no key and is not immediately preceded by an unconsumed key child:
\* it is the first child, or the child before it is no key
IsOrphan(cs, n) == IsValue(cs, n) /\ (n = 1 \/ IsValue(cs, n - 1))

\* C25: a child of a dict that is no key and is not immediately preceded by an
\* unconsumed key child (a value at the start, or a second value after one key) is
\* ignored without error: if the scan of the children before it succeeds, the scan up
\* to it succeeds with the same entries, so that it is recorded under no key and
\* replaces no recorded value.
C25_OrphanValueIgnored ==
    DictConstructed =>
        \A n \in 1..Len(apple_xml.children) :
            IsOrphan(apple_xml.children, n) =>
                LET before == AppleXMLDict(Dict(SubSeq(apple_xml.children, 1, n - 1)))
                    upto == IF n = Len(apple_xml.children) THEN xmldict
                            ELSE AppleXMLDict(Dict(SubSeq(apple_xml.children, 1, n)))
                IN  before.ok => (upto.ok /\ upto.value = before.value)

\* a dict that starts with a value and goes on with a key, a value and another value
\* was constructed: its only entry holds the first value after the key
C25_Witness ==
    /\ DictConstructed
    /\ xmldict.ok
    /\ Len(apple_xml.children) = 4
    /\ IsOrphan(apple_xml.children, 1)
    /\ IsKey(apple_xml.children, 2)
    /\ IsValue(apple_xml.children, 3)
    /\ IsOrphan(apple_xml.children, 4)
    /\ apple_xml.children[4] # apple_xml.children[3]
    /\ xmldict.value = <<[key |-> apple_xml.children[2].text, value |-> apple_xml.children[3]]>>

\* the descriptor is the string 'true' or the string 'false'
IsBoolDescriptor(tm) == tm.kind = "str" /\ tm.text \in {Chars("true"), Chars("false")}

\* C26: in validate the leaf descriptors 'true' and 'false' are
\* interchangeable: each of them succeeds against every Bool value, the one
\* parsed from a true element and the one parsed from a false element, alone
\* or as the elements of an array under a one-element sequence descriptor.
C26_BoolDescriptorsInterchangeable ==
    (pc = "validated" /\ parsed.ok) =>
        /\ (parsed.value.kind = "bool" /\ IsBoolDescriptor(types_mapping)) => validated = NoErr
        /\ ( /\ parsed.value.kind = "list"
             /\ \A i \in 1..Len(parsed.value.items) : parsed.value.items[i].kind = "bool"
             /\ types_mapping.kind = "list"
             /\ Len(types_mapping.items) = 1
             /\ IsBoolDescriptor(types_mapping.items[1]) ) => validated = NoErr

\* the descriptor 'true' has succeeded against the value of a false element
C26_Witness ==
    /\ pc = "validated"
    /\ apple_xml = False
    /\ parsed.ok
    /\ parsed.value.text = Some(Chars("false"))
    /\ types_mapping = StrDescriptor(Chars("true"))
    /\ validated = NoErr

\* the value is a leaf wrapper: no dict, no list and no missing value
IsLeafValue(p) == p.kind \notin {"dict", "list", "nan"}

\* the characters a nested leaf is shown as: the text its get_text returns, or None
\* for an absent text where an empty text would show nothing
NestedLeafText(p) == IF p.text.some THEN wrapper_get_text(p).val ELSE <<"N", "o", "n", "e">>

\* s ends with suffix
EndsWith(s, suffix) ==
    Len(s) >= Len(suffix) /\ SubSeq(s, Len(s) - Len(suffix) + 1, Len(s)) = suffix

\* C27: flatten shows a leaf whose text is absent as the literal text None when the
\* leaf is nested in a Dict or an Array, not as the empty string: an array of leaves
\* is the join of their texts with None for each absent one, and a dict whose last
\* value is such a leaf ends with ": None".  Flatten of such a leaf at the top level
\* returns the absent marker, not a text.
C27_AbsentLeafNestedAndTopLevel ==
    (pc = "flattened" /\ parsed.ok) =>
        /\ (IsLeafValue(parsed.value) /\ ~parsed.value.text.some) => text = None
        /\ ( /\ parsed.value.kind = "list"
             /\ \A i \in 1..Len(parsed.value.items) : IsLeafValue(parsed.value.items[i]) ) =>
                text = Some(str_join(delimiter, [i \in 1..Len(parsed.value.items) |->
                                NestedLeafText(parsed.value.items[i])]))
        /\ ( /\ parsed.value.kind = "dict"
             /\ parsed.value.items # <<>>
             /\ IsLeafValue(parsed.value.items[Len(parsed.value.items)].value)
             /\ ~parsed.value.items[Len(parsed.value.items)].value.text.some ) =>
                (text.some /\ EndsWith(text.val, <<":", " ", "N", "o", "n", "e">>))

\* an array holding a leaf without text next to a leaf with one was flattened: the
\* text shows None for the first and the text of the second
C27_Witness ==
    /\ pc = "flattened"
    /\ parsed.ok
    /\ parsed.value.kind = "list"
    /\ Len(parsed.value.items) = 2
    /\ IsLeafValue(parsed.value.items[1])
    /\ ~parsed.value.items[1].text.some
    /\ IsLeafValue(parsed.value.items[2])
    /\ parsed.value.items[2].text.some
    /\ delimiter # <<>>
    /\ text = Some(<<"N", "o", "n", "e">> \o delimiter \o parsed.value.items[2].text.val)

\* the key of the text k, as the keys of a parsed dict hold it
KeyOfText(k) == IF k = <<>> THEN None ELSE Some(k)

\* k is the text of a key, and the dict p has no entry under it
DictLacks(p, k) ==
    /\ \A i \in 1..Len(k) : k[i] \notin {"&", "<"}
    /\ \A j \in 1..Len(p.items) : p.items[j].key # KeyOfText(k)

\* k is the text of a key of the dict p, and the value under it validates against tm
ValidUnder(p, k, tm) ==
    /\ \A i \in 1..Len(k) : k[i] \notin {"&", "<"}
    /\ \E j \in 1..Len(p.items) :
          /\ p.items[j].key = KeyOfText(k)
          /\ ParsedPrimitiveTypes_validate(p.items[j].value, tm) = NoErr

====
